---- MODULE Spec2Model ----
(***************************************************************************)
(* A model of the draft document of pyJianYingDraft (Script_file and its   *)
(* material registry Script_material): tracks, segments, materials, the    *)
(* export (dumps / dump) and the reload of an exported document            *)
(* (load_template).                                                        *)
(*                                                                         *)
(* Every method of Script_file is a pure operator from the document (and   *)
(* the call's arguments) to the record [doc, err]: the document the call   *)
(* leaves behind and the exception it raised ("ok" when it returned).  An  *)
(* action applies one operator to the document of the state.               *)
(*                                                                         *)
(* Around the document: the draft cache in Redis (tools/redis_cache.py)    *)
(* with the calls of add_effect_impl that read and write it, and the       *)
(* export queue (tools/redis_queue.py) with its processor threads.         *)
(***************************************************************************)
EXTENDS Integers, Sequences, FiniteSets, TLC

VARIABLES
    doc,            \* the Script_file object being edited
    file,           \* the draft file written by dump(): <<>> or <<content>>
    last,           \* the last call made: its name, its exception, whether it changed
                    \* the document, whether it came right after load_template
    IS_CAPCUT_ENV,  \* settings.local.IS_CAPCUT_ENV, fixed for a run
    cache,          \* the Redis server as the draft cache uses it: whether it
                    \* answers, and for each draft_id no value or the pickled
                    \* document stored under it
    sites,          \* the calls of add_effect_impl under way: for each call site its
                    \* position, its arguments and the script it holds
    export_queue,   \* the Redis keys of the export queue: the list of waiting
                    \* tasks, the hash of tasks in processing, the results and
                    \* the progress records
    manager,        \* ExportQueueManager: is_processing_local, current_local_task
    processor,      \* ExportTaskProcessor: is_running, processor_thread, is_windows
    threads,        \* the threads start_processor has started: for each its
                    \* position in _process_loop and the task it holds
    upload          \* the call of _upload_with_fallback under way: its position,
                    \* its callbacks, the temporary file, the providers and the
                    \* callbacks it has called, what it returned

\* The export service: the queue, its manager, the processor and its threads
exports == <<export_queue, manager, processor, threads>>

\* The services around the document: the draft cache, its call sites, the
\* export service and the upload manager
services == <<cache, sites, exports, upload>>

vars == <<doc, file, last, IS_CAPCUT_ENV, services>>

(***************************************************************************)
(* Bounds of the model.                                                    *)
(***************************************************************************)
MaxTracks == 2      \* authored tracks, and imported tracks, of one document
MaxSegments == 2    \* segments of one document, on all its tracks

(***************************************************************************)
(* Values.                                                                 *)
(***************************************************************************)
\* Python's None for an optional argument or attribute; Some(x) is a value.
None == <<>>
Some(x) == <<x>>

Max(a, b) == IF a >= b THEN a ELSE b

Range(s) == {s[i] : i \in DOMAIN s}

SetMax(S) == CHOOSE x \in S : \A y \in S : y <= x

\* The result of a call: the document it leaves and the exception it raised.
Ok(d) == [doc |-> d, err |-> "ok"]
Raise(d, e) == [doc |-> d, err |-> e]

(***************************************************************************)
(* Track types (Track_type): the segment class a track accepts and the     *)
(* base render_index of the type.                                          *)
(***************************************************************************)
Track_type == {"video", "audio", "effect", "filter", "sticker", "text"}

meta_segment_type(track_type) ==
    CASE track_type = "video" -> "Video_segment"
      [] track_type = "audio" -> "Audio_segment"
      [] track_type = "effect" -> "Effect_segment"
      [] track_type = "filter" -> "Filter_segment"
      [] track_type = "sticker" -> "Sticker_segment"
      [] track_type = "text" -> "Text_segment"

meta_render_index(track_type) ==
    CASE track_type = "video" -> 0
      [] track_type = "audio" -> 0
      [] track_type = "effect" -> 10000
      [] track_type = "filter" -> 11000
      [] track_type = "sticker" -> 14000
      [] track_type = "text" -> 15000

Track(track_type, name, render_index, mute) ==
    [track_type |-> track_type, name |-> name, render_index |-> render_index,
     mute |-> mute, segments |-> <<>>]

accept_segment_type(track) == meta_segment_type(track.track_type)

(***************************************************************************)
(* Time ranges and segments.  A material object is [cls, id]; an id is a   *)
(* pair <<kind, n>>, unique in the document as a uuid is.                   *)
(***************************************************************************)
Obj(cls, id) == [cls |-> cls, id |-> id]

seg_end(seg) == seg.start + seg.dur

\* Timerange.overlaps
overlaps(a, b) == ~(seg_end(a) <= b.start \/ seg_end(b) <= a.start)

NoAttach ==
    [material_instance |-> None, animations_instance |-> None, effects |-> <<>>,
     filters |-> <<>>, mask |-> None, transition |-> None,
     background_filling |-> None, speed |-> None, fade |-> None,
     bubble |-> None, effect |-> None, effect_inst |-> None, material |-> None]

\* The ids a segment lists in extra_material_refs, from what is attached to it.
OptRef(o) == IF o = None THEN <<>> ELSE <<o[1].id>>

RECURSIVE Ids(_)
Ids(objs) == IF objs = <<>> THEN <<>> ELSE <<Head(objs).id>> \o Ids(Tail(objs))

extra_material_refs(a) ==
    OptRef(a.speed) \o OptRef(a.animations_instance) \o Ids(a.effects)
    \o Ids(a.filters) \o OptRef(a.mask) \o OptRef(a.transition)
    \o OptRef(a.background_filling) \o OptRef(a.fade) \o OptRef(a.bubble)
    \o OptRef(a.effect)

\* A segment: its place on the track (start, dur) and, for a video or audio
\* segment, the range of its material it plays, here the material from 0 at
\* speed 1.
Segment(n, kind, start, dur, material_id, text, a) ==
    [id |-> <<"seg", n>>, kind |-> kind, start |-> start, dur |-> dur,
     source_timerange |-> IF kind \in {"Video_segment", "Audio_segment"}
                          THEN Some([start |-> 0, duration |-> dur]) ELSE None,
     material_id |-> material_id, text |-> text,
     extra_material_refs |-> extra_material_refs(a), attach |-> a]

\* The segments a caller can build.  n is the number of the new segment: the
\* objects made with it (its speed, its mask, its own material) carry it, as
\* they carry fresh uuids.  Number 0 is an effect or filter instance that
\* several segments hold.
Video_segment(n, start, dur, k, rich) ==
    Segment(n, "Video_segment", start, dur, <<"video", k>>, None,
        [NoAttach EXCEPT
            !.material_instance = Some(Obj("Video_material", <<"video", k>>)),
            !.speed = Some(Obj("Speed", <<"speed", n>>)),
            !.animations_instance =
                IF rich THEN Some(Obj("Segment_animations", <<"animation", n>>)) ELSE None,
            !.effects = IF rich THEN <<Obj("Video_effect", <<"video_effect", 0>>)>> ELSE <<>>,
            !.filters = IF rich THEN <<Obj("Filter", <<"filter", 0>>)>> ELSE <<>>,
            !.mask = IF rich THEN Some(Obj("Mask", <<"mask", n>>)) ELSE None,
            !.transition = IF rich THEN Some(Obj("Transition", <<"transition", n>>)) ELSE None,
            !.background_filling =
                IF rich THEN Some(Obj("BackgroundFilling", <<"canvas", n>>)) ELSE None])

Audio_segment(n, start, dur, k, rich) ==
    Segment(n, "Audio_segment", start, dur, <<"audio", k>>, None,
        [NoAttach EXCEPT
            !.material_instance = Some(Obj("Audio_material", <<"audio", k>>)),
            !.speed = Some(Obj("Speed", <<"speed", n>>)),
            !.fade = IF rich THEN Some(Obj("Audio_fade", <<"audio_fade", n>>)) ELSE None,
            !.effects = IF rich THEN <<Obj("Audio_effect", <<"audio_effect", 0>>)>> ELSE <<>>])

Text_segment(n, start, dur, text, animation, bubble, effect) ==
    Segment(n, "Text_segment", start, dur, <<"text", n>>, text,
        [NoAttach EXCEPT
            !.animations_instance = animation, !.bubble = bubble, !.effect = effect])

Sticker_segment(n, start, dur) ==
    Segment(n, "Sticker_segment", start, dur, <<"sticker", n>>, None, NoAttach)

Effect_segment(n, start, dur) ==
    Segment(n, "Effect_segment", start, dur, <<"video_effect", n>>, None,
        [NoAttach EXCEPT !.effect_inst = Some(Obj("Video_effect", <<"video_effect", n>>))])

Filter_segment(n, start, dur) ==
    Segment(n, "Filter_segment", start, dur, <<"filter", n>>, None,
        [NoAttach EXCEPT !.material = Some(Obj("Filter", <<"filter", n>>))])

(***************************************************************************)
(* Script_material: the material registry.                                 *)
(***************************************************************************)
Script_material ==
    [audios |-> <<>>, videos |-> <<>>, stickers |-> <<>>, texts |-> <<>>,
     audio_effects |-> <<>>, audio_fades |-> <<>>, animations |-> <<>>,
     video_effects |-> <<>>, speeds |-> <<>>, masks |-> <<>>,
     transitions |-> <<>>, filters |-> <<>>, canvases |-> <<>>]

\* The list __contains__ searches for an object of class cls; None for a
\* class it raises TypeError on.
contains_list(cls) ==
    CASE cls = "Video_material" -> Some("videos")
      [] cls = "Audio_material" -> Some("audios")
      [] cls = "Audio_fade" -> Some("audio_fades")
      [] cls = "Audio_effect" -> Some("audio_effects")
      [] cls = "Segment_animations" -> Some("animations")
      [] cls = "Video_effect" -> Some("video_effects")
      [] cls = "Transition" -> Some("transitions")
      [] cls = "Filter" -> Some("filters")
      [] OTHER -> None

\* Script_material.__contains__, for an item of a class it knows
contains(materials, item) ==
    item.id \in {o.id : o \in Range(materials[contains_list(item.cls)[1]])}

\* export_json of a material object, and the export_material / export_json
\* dictionaries the registry holds for stickers, texts and masks
material_json(o) == [id |-> o.id, type |-> o.cls]

export_material(seg) ==
    [id |-> seg.material_id,
     type |-> IF seg.kind = "Text_segment" THEN "text" ELSE "sticker"]

RECURSIVE jsons(_)
jsons(objs) == IF objs = <<>> THEN <<>> ELSE <<material_json(Head(objs))>> \o jsons(Tail(objs))

\* The keys of the materials section that export_json always leaves empty.
EmptyCategories ==
    {"ai_translates", "audio_balances", "audio_track_indexes", "beats", "chromas",
     "color_curves", "digital_humans", "drafts", "flowers", "green_screens",
     "handwrites", "hsl", "images", "log_color_wheels", "loudnesses",
     "manual_deformations", "material_colors", "multi_language_refs",
     "placeholders", "plugin_effects", "primary_color_wheels", "realtime_denoises",
     "shapes", "smart_crops", "smart_relights", "sound_channel_mappings",
     "tail_leaders", "text_templates", "time_marks", "video_trackings",
     "vocal_beautifys", "vocal_separations"}

\* The keys whose exported list IS the registry's list object (no copy is
\* made), with the registry list each one is.
mask_key(capcut) == IF capcut THEN "common_mask" ELSE "masks"

SharedLists(capcut) == {"stickers", "texts", mask_key(capcut)}

shared_list(key) == IF key \in {"masks", "common_mask"} THEN "masks" ELSE key

\* Script_material.export_json
ExportKeys(capcut) ==
    EmptyCategories \cup
    {"audio_effects", "audio_fades", "audios", "canvases", "effects",
     "material_animations", "speeds", "stickers", "texts", "transitions",
     "video_effects", "videos", mask_key(capcut)}

export_json(materials, capcut) ==
    [key \in ExportKeys(capcut) |->
        CASE key = "audio_effects" -> jsons(materials.audio_effects)
          [] key = "audio_fades" -> jsons(materials.audio_fades)
          [] key = "audios" -> jsons(materials.audios)
          [] key = "canvases" -> jsons(materials.canvases)
          [] key = "effects" -> jsons(materials.filters)
          [] key = "material_animations" -> jsons(materials.animations)
          [] key = "speeds" -> jsons(materials.speeds)
          [] key = "stickers" -> materials.stickers
          [] key = "texts" -> materials.texts
          [] key = "transitions" -> jsons(materials.transitions)
          [] key = "video_effects" -> jsons(materials.video_effects)
          [] key = "videos" -> jsons(materials.videos)
          [] key \in {"masks", "common_mask"} -> materials.masks
          [] OTHER -> <<>>]

(***************************************************************************)
(* Script_file.                                                            *)
(***************************************************************************)
\* The materials and tracks of draft_content_template.json
EmptyContent == [duration |-> 0, materials |-> <<>>, tracks |-> <<>>]

\* Script_file.__init__
Script_file ==
    [duration |-> 0, materials |-> Script_material, tracks |-> <<>>,
     imported_materials |-> <<>>, imported_tracks |-> <<>>,
     content |-> EmptyContent]

\* Mutant: the material is appended without looking for it in the registry.
add_material_unchecked(d, material) ==
    IF material.cls = "Video_material"
    THEN Ok([d EXCEPT !.materials.videos = Append(@, material)])
    ELSE IF material.cls = "Audio_material"
    THEN Ok([d EXCEPT !.materials.audios = Append(@, material)])
    ELSE Raise(d, "TypeError")

\* Script_file.add_material
add_material(d, material) ==
    IF contains_list(material.cls) = None THEN Raise(d, "TypeError")
    ELSE IF contains(d.materials, material) THEN Ok(d)
    ELSE IF material.cls = "Video_material"
         THEN Ok([d EXCEPT !.materials.videos = Append(@, material)])
    ELSE IF material.cls = "Audio_material"
         THEN Ok([d EXCEPT !.materials.audios = Append(@, material)])
    ELSE Raise(d, "TypeError")

\* Script_file.add_track.  self.tracks is a dict in insertion order: the
\* sequence of its values, of distinct names.
track_names(d) == {d.tracks[i].name : i \in DOMAIN d.tracks}

\* Mutant: a track of the name is replaced by the new one.
add_track_replacing(d, track_type, track_name, mute, relative_index, absolute_index) ==
    IF track_name = None
       /\ track_type \in {d.tracks[i].track_type : i \in DOMAIN d.tracks}
    THEN Raise(d, "NameError")
    ELSE
        LET name == IF track_name = None THEN track_type ELSE track_name[1]
            render_index ==
                IF absolute_index # None THEN absolute_index[1]
                ELSE meta_render_index(track_type) + relative_index
            track == Track(track_type, name, render_index, mute)
        IN  IF name \in track_names(d)
            THEN Ok([d EXCEPT !.tracks =
                        [i \in DOMAIN @ |-> IF @[i].name = name THEN track ELSE @[i]]])
            ELSE Ok([d EXCEPT !.tracks = Append(@, track)])

add_track(d, track_type, track_name, mute, relative_index, absolute_index) ==
    IF track_name = None
       /\ track_type \in {d.tracks[i].track_type : i \in DOMAIN d.tracks}
    THEN Raise(d, "NameError")
    ELSE
        LET name == IF track_name = None THEN track_type ELSE track_name[1]
            render_index ==
                IF absolute_index # None THEN absolute_index[1]
                ELSE meta_render_index(track_type) + relative_index
        IN  IF name \in track_names(d) THEN Ok(d)
            ELSE Ok([d EXCEPT !.tracks =
                        Append(@, Track(track_type, name, render_index, mute))])

\* A track of the document: <<"tracks", i>> or <<"imported_tracks", i>>.
track_at(d, ref) == d[ref[1]][ref[2]]

SelectRefs(d, field, Test(_)) ==
    LET RECURSIVE from(_)
        from(i) ==
            IF i > Len(d[field]) THEN <<>>
            ELSE (IF Test(d[field][i]) THEN <<<<field, i>>>> ELSE <<>>) \o from(i + 1)
    IN  from(1)

\* Script_file.get_track.  With the name omitted the count compares each
\* track's track_type, a Track_type member, with segment_type, a segment
\* class; the track is then looked for by the class it accepts.
get_track(d, segment_type, track_name) ==
    IF track_name # None
    THEN LET named == SelectRefs(d, "tracks", LAMBDA t : t.name = track_name[1])
         IN  IF named = <<>> THEN [track |-> None, err |-> "NameError"]
             ELSE [track |-> named[1], err |-> "ok"]
    ELSE LET count == Len(SelectRefs(d, "tracks", LAMBDA t : t.track_type = segment_type))
             accepting == SelectRefs(d, "tracks",
                                     LAMBDA t : accept_segment_type(t) = segment_type)
         IN  IF count = 0 THEN [track |-> None, err |-> "TrackNotFound"]
             ELSE IF count > 1 THEN [track |-> None, err |-> "NameError"]
             ELSE IF accepting = <<>> THEN [track |-> None, err |-> "StopIteration"]
             ELSE [track |-> accepting[1], err |-> "ok"]

\* Script_file._get_track_and_imported_track
_get_track_and_imported_track(d, segment_type, track_name) ==
    IF track_name # None
    THEN LET result_tracks ==
                 SelectRefs(d, "tracks", LAMBDA t : t.name = track_name[1])
                 \o SelectRefs(d, "imported_tracks", LAMBDA t : t.name = track_name[1])
         IN  IF result_tracks = <<>> THEN [tracks |-> <<>>, err |-> "NameError"]
             ELSE [tracks |-> result_tracks, err |-> "ok"]
    ELSE LET result_tracks ==
                 SelectRefs(d, "tracks", LAMBDA t : accept_segment_type(t) = segment_type)
                 \o SelectRefs(d, "imported_tracks",
                               LAMBDA t : accept_segment_type(t) = segment_type)
         IN  IF result_tracks = <<>> THEN [tracks |-> <<>>, err |-> "NameError"]
             ELSE IF Len(result_tracks) > 1 THEN [tracks |-> <<>>, err |-> "NameError"]
             ELSE [tracks |-> result_tracks, err |-> "ok"]

\* Track.add_segment: the segment must be of the class the track accepts and
\* must overlap none of the track's segments; it is then put at its place
\* in the order of start times.
insert_sorted(segments, seg) ==
    LET before == SelectSeq(segments, LAMBDA s : s.start <= seg.start)
        after == SelectSeq(segments, LAMBDA s : s.start > seg.start)
    IN  before \o <<seg>> \o after

Track_add_segment(track, seg) ==
    IF seg.kind # accept_segment_type(track)
    THEN [track |-> track, err |-> "TypeError"]
    ELSE IF \E i \in DOMAIN track.segments : overlaps(track.segments[i], seg)
    THEN [track |-> track, err |-> "SegmentOverlap"]
    ELSE [track |-> [track EXCEPT !.segments = insert_sorted(@, seg)], err |-> "ok"]

\* Mutant: the segment is appended to the target's list, with no call of
\* the track's add_segment.
target_add_segment_appended(d, ref, seg) ==
    [doc |-> [d EXCEPT ![ref[1]][ref[2]].segments = Append(@, seg)], err |-> "ok"]

\* target.add_segment(segment) on the track ref names
target_add_segment(d, ref, seg) ==
    LET r == Track_add_segment(track_at(d, ref), seg)
    IN  [doc |-> [d EXCEPT ![ref[1]][ref[2]] = r.track], err |-> r.err]

\* "if x is not None and x not in self.materials: list.append(x)", and the
\* same for each x of a list
RECURSIVE append_new(_, _, _)
append_new(materials, list, objs) ==
    IF objs = <<>> THEN materials
    ELSE append_new(
            IF contains(materials, Head(objs)) THEN materials
            ELSE [materials EXCEPT ![list] = Append(@, Head(objs))],
            list, Tail(objs))

\* "if x is not None: list.append(x)"
append_opt(materials, list, x) == [materials EXCEPT ![list] = @ \o x]

\* Script_file.add_segment, lines 359-405: the materials of the segment
register_materials(materials, seg) ==
    LET a == seg.attach IN
    IF seg.kind = "Video_segment" THEN
        LET m1 == append_new(materials, "animations", a.animations_instance)
            m2 == append_new(m1, "video_effects", a.effects)
            m3 == append_new(m2, "filters", a.filters)
            m4 == [m3 EXCEPT !.masks =
                      @ \o (IF a.mask = None THEN <<>> ELSE <<material_json(a.mask[1])>>)]
            m5 == append_new(m4, "transitions", a.transition)
            m6 == append_opt(m5, "canvases", a.background_filling)
        IN  append_opt(m6, "speeds", a.speed)
    ELSE IF seg.kind = "Sticker_segment" THEN
        [materials EXCEPT !.stickers = Append(@, export_material(seg))]
    ELSE IF seg.kind = "Audio_segment" THEN
        LET m1 == append_new(materials, "audio_fades", a.fade)
            m2 == append_new(m1, "audio_effects", a.effects)
        IN  append_opt(m2, "speeds", a.speed)
    ELSE IF seg.kind = "Text_segment" THEN
        LET m1 == append_new(materials, "animations", a.animations_instance)
            m2 == append_opt(m1, "filters", a.bubble)
            m3 == append_opt(m2, "filters", a.effect)
        IN  [m3 EXCEPT !.texts = Append(@, export_material(seg))]
    ELSE materials

\* Mutant: the duration is updated before the segment is added to the track.
add_segment_duration_first(d, seg, track_name) ==
    LET found == _get_track_and_imported_track(d, seg.kind, track_name) IN
    IF found.err # "ok" THEN Raise(d, found.err)
    ELSE
        LET d0 == [d EXCEPT !.duration = Max(@, seg_end(seg))]
            added == target_add_segment(d0, found.tracks[1], seg)
        IN  IF added.err # "ok" THEN added
            ELSE
                LET d1 == [added.doc EXCEPT !.materials = register_materials(@, seg)]
                IN  IF seg.kind \in {"Video_segment", "Audio_segment"}
                    THEN add_material(d1, seg.attach.material_instance[1])
                    ELSE Ok(d1)

\* Script_file.add_segment
add_segment(d, seg, track_name) ==
    LET found == _get_track_and_imported_track(d, seg.kind, track_name) IN
    IF found.err # "ok" THEN Raise(d, found.err)
    ELSE
        LET added == target_add_segment(d, found.tracks[1], seg) IN
        IF added.err # "ok" THEN added
        ELSE
            LET d1 == [added.doc EXCEPT
                          !.duration = Max(@, seg_end(seg)),
                          !.materials = register_materials(@, seg)]
            IN  IF seg.kind \in {"Video_segment", "Audio_segment"}
                THEN add_material(d1, seg.attach.material_instance[1])
                ELSE Ok(d1)

\* Mutant: the duration becomes the end of the new segment.
add_effect_duration_assigned(d, segment, track_name) ==
    LET target == get_track(d, "Effect_segment", track_name) IN
    IF target.err # "ok" THEN Raise(d, target.err)
    ELSE
        LET added == target_add_segment(d, target.track, segment) IN
        IF added.err # "ok" THEN added
        ELSE Ok([added.doc EXCEPT
                    !.duration = segment.start + segment.dur,
                    !.materials = append_new(@, "video_effects", segment.attach.effect_inst)])

\* Script_file.add_effect
add_effect(d, segment, track_name) ==
    LET target == get_track(d, "Effect_segment", track_name) IN
    IF target.err # "ok" THEN Raise(d, target.err)
    ELSE
        LET added == target_add_segment(d, target.track, segment) IN
        IF added.err # "ok" THEN added
        ELSE Ok([added.doc EXCEPT
                    !.duration = Max(@, segment.start + segment.dur),
                    !.materials = append_new(@, "video_effects", segment.attach.effect_inst)])

\* Script_file.add_filter
add_filter(d, segment, track_name) ==
    LET target == get_track(d, "Filter_segment", track_name) IN
    IF target.err # "ok" THEN Raise(d, target.err)
    ELSE
        LET added == target_add_segment(d, target.track, segment) IN
        IF added.err # "ok" THEN added
        ELSE Ok([added.doc EXCEPT
                    !.duration = Max(@, seg_end(segment)),
                    !.materials = append_opt(@, "filters", segment.attach.material)])

\* The number of the next segment built: ids are never reused.
all_segments(d) ==
    UNION {Range(d.tracks[i].segments) : i \in DOMAIN d.tracks}
    \cup UNION {Range(d.imported_tracks[i].segments) : i \in DOMAIN d.imported_tracks}

segment_count(d) ==
    LET RECURSIVE total(_)
        total(ts) == IF ts = <<>> THEN 0 ELSE Len(Head(ts).segments) + total(Tail(ts))
    IN  total(d.tracks) + total(d.imported_tracks)

next_segment(d) == SetMax({0} \cup {s.id[2] : s \in all_segments(d)}) + 1

(***************************************************************************)
(* import_srt.  A line of the subtitle text is blank, a number, a          *)
(* timestamp line "s --> e" or any other text.                             *)
(***************************************************************************)
BlankLine == [k |-> "blank", s |-> 0, e |-> 0]
DigitLine == [k |-> "digit", s |-> 0, e |-> 0]
TextLine == [k |-> "text", s |-> 0, e |-> 0]
StampLine(s, e) == [k |-> "stamp", s |-> s, e |-> e]

\* import_srt.__add_text_segment, for the call c of import_srt.  font_type
\* is bound only when a font was given; the segment holds deep copies of
\* the bubble and of the effect of the call, which keep their ids.
add_text_segment(d, c, text, t_range) ==
    IF c.font = None THEN Raise(d, "NameError")
    ELSE
        LET seg == Text_segment(next_segment(d), t_range.start, t_range.dur, text,
                                None, c.bubble, c.effect)
            m1 == append_opt(d.materials, "filters", c.bubble)
            m2 == append_opt(m1, "filters", c.effect)
        IN  add_segment([d EXCEPT !.materials = m2], seg, Some(c.track_name))

\* The parse loop of import_srt; the lines are numbered from 1, as the error
\* for a line that should be a number and is none numbers them
RECURSIVE srt_loop(_, _, _, _, _, _)
srt_loop(d, c, index, read_state, text, text_trange) ==
    IF index > Len(c.lines)
    THEN IF Len(text) > 0 THEN add_text_segment(d, c, text, text_trange) ELSE Ok(d)
    ELSE
        LET line == c.lines[index] IN
        IF read_state = "index" THEN
            IF line.k = "blank" THEN srt_loop(d, c, index + 1, "index", text, text_trange)
            ELSE IF line.k # "digit"
            THEN [doc |-> d, err |-> "ValueError", line |-> index]
            ELSE srt_loop(d, c, index + 1, "timestamp", text, text_trange)
        ELSE IF read_state = "timestamp" THEN
            IF line.k # "stamp" THEN Raise(d, "ValueError")
            ELSE srt_loop(d, c, index + 1, "content", text,
                          [start |-> line.s + c.time_offset, dur |-> line.e - line.s])
        ELSE
            IF line.k = "blank"
            THEN LET r == add_text_segment(d, c, text, text_trange)
                 IN  IF r.err # "ok" THEN r
                     ELSE srt_loop(r.doc, c, index + 1, "index", <<>>, text_trange)
            ELSE srt_loop(d, c, index + 1, "content", Append(text, line), text_trange)

\* Script_file.import_srt.  c is the call: lines, track_name, time_offset,
\* style_reference and clip_settings (given or not), font (None, or Some of
\* whether Font_type has it), bubble, effect.
import_srt(d, c) ==
    IF ~c.style_reference /\ ~c.clip_settings THEN Raise(d, "ValueError")
    ELSE IF c.font # None /\ ~c.font[1] THEN Raise(d, "ValueError")
    ELSE
        LET track_exists ==
                c.track_name \in track_names(d)
                \/ \E i \in DOMAIN d.imported_tracks : d.imported_tracks[i].name = c.track_name
            d1 == IF track_exists THEN d
                  ELSE add_track(d, "text", Some(c.track_name), FALSE, 999, None).doc
        IN  srt_loop(d1, c, 1, "index", <<>>, [start |-> 0, dur |-> 0])

(***************************************************************************)
(* Export and reload.                                                      *)
(***************************************************************************)
\* export_json of a segment and of a track
segment_json(seg, render_index) ==
    [id |-> seg.id, material_id |-> seg.material_id,
     extra_material_refs |-> seg.extra_material_refs,
     target_timerange |-> [start |-> seg.start, duration |-> seg.dur],
     source_timerange |-> seg.source_timerange,
     render_index |-> render_index]

track_json(track) ==
    [type |-> track.track_type, name |-> track.name,
     render_index |-> track.render_index, attribute |-> track.mute,
     segments |-> [i \in DOMAIN track.segments |->
                      segment_json(track.segments[i], track.render_index)]]

\* Mutant: a sort that puts a track before the earlier tracks of its
\* render_index.
RECURSIVE sort_by_render_index_unstable(_)
sort_by_render_index_unstable(track_list) ==
    IF track_list = <<>> THEN <<>>
    ELSE LET n == Len(track_list)
             sorted == sort_by_render_index_unstable(SubSeq(track_list, 1, n - 1))
             x == track_list[n]
         IN  SelectSeq(sorted, LAMBDA t : t.render_index < x.render_index)
             \o <<x>>
             \o SelectSeq(sorted, LAMBDA t : t.render_index >= x.render_index)

\* list.sort(key=lambda track: track.render_index): a stable sort
RECURSIVE sort_by_render_index(_)
sort_by_render_index(track_list) ==
    IF track_list = <<>> THEN <<>>
    ELSE LET n == Len(track_list)
             sorted == sort_by_render_index(SubSeq(track_list, 1, n - 1))
             x == track_list[n]
         IN  SelectSeq(sorted, LAMBDA t : t.render_index <= x.render_index)
             \o <<x>>
             \o SelectSeq(sorted, LAMBDA t : t.render_index > x.render_index)

\* Mutant: the imported list of a key the export has is dropped.
merge_imported_missing_only(exported, imported) ==
    [key \in DOMAIN exported \cup DOMAIN imported |->
        IF key \notin DOMAIN exported THEN imported[key] ELSE exported[key]]

\* dumps, lines 910-915: each list of imported_materials is put under its key,
\* or appended to the list already there
merge_imported(exported, imported) ==
    [key \in DOMAIN exported \cup DOMAIN imported |->
        IF key \notin DOMAIN exported THEN imported[key]
        ELSE IF key \in DOMAIN imported THEN exported[key] \o imported[key]
        ELSE exported[key]]

\* What extending the exported lists does to the registry: the exported
\* stickers, texts and masks are the registry's own lists.
extend_shared(materials, imported, capcut) ==
    [list \in DOMAIN materials |->
        LET keys == {key \in SharedLists(capcut) \cap DOMAIN imported :
                        shared_list(key) = list}
        IN  IF keys = {} THEN materials[list]
            ELSE materials[list] \o imported[CHOOSE key \in keys : TRUE]]

\* Script_file.dumps: the document it leaves, whose content is the output
dumps(d, capcut) ==
    LET track_list == sort_by_render_index(d.tracks \o d.imported_tracks)
    IN  [d EXCEPT
            !.content =
                [duration |-> d.duration,
                 materials |-> merge_imported(export_json(d.materials, capcut),
                                              d.imported_materials),
                 tracks |-> [i \in DOMAIN track_list |-> track_json(track_list[i])]],
            !.materials = extend_shared(@, d.imported_materials, capcut)]

\* template_mode.import_track: the track of a loaded document, with its
\* segments and their ids as they were exported
imported_segment(track_type, json) ==
    [id |-> json.id, kind |-> meta_segment_type(track_type),
     start |-> json.target_timerange.start, dur |-> json.target_timerange.duration,
     source_timerange |-> json.source_timerange,
     material_id |-> json.material_id, text |-> None,
     extra_material_refs |-> json.extra_material_refs, attach |-> NoAttach]

import_track(track_data) ==
    [track_type |-> track_data.type, name |-> track_data.name,
     render_index |-> track_data.render_index, mute |-> track_data.attribute,
     segments |-> [i \in DOMAIN track_data.segments |->
                      imported_segment(track_data.type, track_data.segments[i])]]

\* Script_file.load_template, of the file holding content
load_template(content) ==
    [Script_file EXCEPT
        !.content = content,
        !.duration = content.duration,
        !.imported_materials = content.materials,
        !.imported_tracks = [i \in DOMAIN content.tracks |-> import_track(content.tracks[i])]]

(***************************************************************************)
(* Template mode: tracks and materials of loaded documents.                *)
(***************************************************************************)
\* The keys of a materials section in the order export_json writes them,
\* which is the order json.load and dict.items() give them in
MaterialKeys ==
    <<"ai_translates", "audio_balances", "audio_effects", "audio_fades",
      "audio_track_indexes", "audios", "beats", "canvases", "chromas", "color_curves",
      "digital_humans", "drafts", "effects", "flowers", "green_screens", "handwrites",
      "hsl", "images", "log_color_wheels", "loudnesses", "manual_deformations",
      "material_animations", "material_colors", "multi_language_refs", "placeholders",
      "plugin_effects", "primary_color_wheels", "realtime_denoises", "shapes",
      "smart_crops", "smart_relights", "sound_channel_mappings", "speeds", "stickers",
      "tail_leaders", "text_templates", "texts", "time_marks", "transitions",
      "video_effects", "video_trackings", "videos", "vocal_beautifys",
      "vocal_separations", "common_mask", "masks">>

\* The lists a loop over materials.items() has something to do for: the
\* keys, in that order, whose list is not empty
items(materials) ==
    SelectSeq(MaterialKeys, LAMBDA key : key \in DOMAIN materials /\ materials[key] # <<>>)

\* Mutant: index counts all imported tracks.
get_imported_track_any_type(d, track_type, name, index) ==
    LET all == SelectRefs(d, "imported_tracks", LAMBDA t : TRUE)
        ret == SelectSeq([ind \in DOMAIN all |-> ind],
                         LAMBDA ind :
                            /\ track_at(d, all[ind]).track_type = track_type
                            /\ name # None => track_at(d, all[ind]).name = name[1]
                            /\ index # None => ind - 1 = index[1])
    IN  IF ret = <<>> THEN [track |-> None, err |-> "TrackNotFound"]
        ELSE IF Len(ret) > 1 THEN [track |-> None, err |-> "AmbiguousTrack"]
        ELSE [track |-> all[ret[1]], err |-> "ok"]

\* Script_file.get_imported_track: index counts the imported tracks of the
\* type, from 0.  The tracks of a loaded document pass the assertion on
\* their class.
get_imported_track(d, track_type, name, index) ==
    LET tracks_of_same_type ==
            SelectRefs(d, "imported_tracks", LAMBDA t : t.track_type = track_type)
        ret == SelectSeq([ind \in DOMAIN tracks_of_same_type |-> ind],
                         LAMBDA ind :
                            /\ name # None => track_at(d, tracks_of_same_type[ind]).name = name[1]
                            /\ index # None => ind - 1 = index[1])
    IN  IF ret = <<>> THEN [track |-> None, err |-> "TrackNotFound"]
        ELSE IF Len(ret) > 1 THEN [track |-> None, err |-> "AmbiguousTrack"]
        ELSE [track |-> tracks_of_same_type[ret[1]], err |-> "ok"]

\* Base_track.end_time: the end of the last segment, 0 without segments
end_time(track) ==
    IF track.segments = <<>> THEN 0 ELSE seg_end(track.segments[Len(track.segments)])

\* Mutant: the ids of extra_material_refs are left out.
material_ids_main_only(track) ==
    {track.segments[i].material_id : i \in DOMAIN track.segments}

\* import_track, lines 668-679: the ids the segments of the track refer to
material_ids(track) ==
    UNION {{track.segments[i].material_id} \cup Range(track.segments[i].extra_material_refs) :
            i \in DOMAIN track.segments}

\* import_track, lines 683-686: the materials of one list of the source
RECURSIVE copy_list(_, _, _, _)
copy_list(imported_materials, material_type, material_list, ids) ==
    IF material_list = <<>>
    THEN [imported_materials |-> imported_materials, ids |-> ids, err |-> "ok"]
    ELSE LET material == Head(material_list)
         IN  IF material.id \notin ids
             THEN copy_list(imported_materials, material_type, Tail(material_list), ids)
             ELSE IF material_type \notin DOMAIN imported_materials
             THEN [imported_materials |-> imported_materials, ids |-> ids,
                   err |-> "KeyError"]
             ELSE copy_list([imported_materials EXCEPT ![material_type] = Append(@, material)],
                            material_type, Tail(material_list), ids \ {material.id})

\* import_track, lines 682-686: the lists of the source, one after another
RECURSIVE copy_materials(_, _, _, _)
copy_materials(imported_materials, source_materials, material_types, ids) ==
    IF material_types = <<>>
    THEN [imported_materials |-> imported_materials, ids |-> ids, err |-> "ok"]
    ELSE LET copied == copy_list(imported_materials, Head(material_types),
                                 source_materials[Head(material_types)], ids)
         IN  IF copied.err # "ok" THEN copied
             ELSE copy_materials(copied.imported_materials, source_materials,
                                 Tail(material_types), copied.ids)

\* Mutant: the start of a segment is moved by the offset and not held at 0.
shifted_track_unclamped(track, offset, new_name, relative_index) ==
    [track EXCEPT
        !.render_index = IF relative_index # None
                         THEN meta_render_index(track.track_type) + relative_index[1]
                         ELSE @,
        !.name = IF new_name # None THEN new_name[1] ELSE @,
        !.segments = [i \in DOMAIN @ |-> [@[i] EXCEPT !.start = @ + offset]]]

\* import_track, lines 655-665: the copy of the track that is appended
shifted_track(track, offset, new_name, relative_index) ==
    [track EXCEPT
        !.render_index = IF relative_index # None
                         THEN meta_render_index(track.track_type) + relative_index[1]
                         ELSE @,
        !.name = IF new_name # None THEN new_name[1] ELSE @,
        !.segments = [i \in DOMAIN @ |->
                        IF offset # 0
                        THEN [@[i] EXCEPT !.start = Max(0, @ + offset)]
                        ELSE @[i]]]

\* Script_file.import_track: the document, and the source document, it leaves
Script_file_import_track(d, source_file, track, offset, new_name, relative_index) ==
    LET appended == [d EXCEPT !.imported_tracks =
                        Append(@, shifted_track(track, offset, new_name, relative_index))]
        copied == copy_materials(d.imported_materials, source_file.imported_materials,
                                 items(source_file.imported_materials), material_ids(track))
        with_materials == [appended EXCEPT !.imported_materials = copied.imported_materials]
    IN  IF copied.err # "ok"
        THEN [doc |-> with_materials, err |-> copied.err, source_file |-> source_file]
        ELSE IF copied.ids # {}
        THEN [doc |-> with_materials, err |-> "AssertionError", source_file |-> source_file]
        ELSE [doc |-> [with_materials EXCEPT !.duration = Max(@, end_time(track))],
              err |-> "ok", source_file |-> source_file]

\* local_materials: a video or audio file a caller holds, and the record
\* its export_json writes to the materials section
Video_material(k, material_name, duration, material_type) ==
    [cls |-> "Video_material", id |-> <<"video", k>>, material_name |-> material_name,
     path |-> <<"path", "video", k>>, duration |-> duration,
     width |-> 1920, height |-> 1080, material_type |-> material_type,
     crop_settings |-> <<"crop", k>>]

Audio_material(k, material_name, duration) ==
    [cls |-> "Audio_material", id |-> <<"audio", k>>, material_name |-> material_name,
     path |-> <<"path", "audio", k>>, duration |-> duration]

material_record(material) ==
    IF material.cls = "Video_material"
    THEN [id |-> material.id, type |-> material.material_type,
          material_name |-> material.material_name, path |-> material.path,
          duration |-> material.duration, width |-> material.width,
          height |-> material.height, material_type |-> material.material_type,
          crop |-> material.crop_settings]
    ELSE [id |-> material.id, type |-> "extract_music", name |-> material.material_name,
          path |-> material.path, duration |-> material.duration]

\* replace_material_by_name, lines 724-729: the record after the update
updated_record(mat, material, replace_crop) ==
    IF material.cls = "Video_material"
    THEN [mat EXCEPT !.material_name = material.material_name,
                     !.path = material.path, !.duration = material.duration,
                     !.width = material.width, !.height = material.height,
                     !.material_type = material.material_type,
                     !.crop = IF replace_crop THEN material.crop_settings ELSE @]
    ELSE [mat EXCEPT !.name = material.material_name,
                     !.path = material.path, !.duration = material.duration]

\* Script_file.replace_material_by_name
replace_material_by_name(d, material_name, material, replace_crop) ==
    LET video_mode == material.cls = "Video_material"
        list == IF video_mode THEN "videos" ELSE "audios"
        name_key == IF video_mode THEN "material_name" ELSE "name"
    IN  IF list \notin DOMAIN d.imported_materials THEN Raise(d, "KeyError")
        ELSE
            LET target_material_list == d.imported_materials[list]
                named == {i \in DOMAIN target_material_list :
                            target_material_list[i][name_key] = material_name}
            IN  IF Cardinality(named) > 1 THEN Raise(d, "AmbiguousMaterial")
                ELSE IF named = {} THEN Raise(d, "MaterialNotFound")
                ELSE Ok([d EXCEPT !.imported_materials[list] =
                            [i \in DOMAIN @ |->
                                IF i \in named
                                THEN updated_record(@[i], material, replace_crop)
                                ELSE @[i]]])

\* Python's float, for the quotients and products of __recalc_style_range:
\* an IEEE 754 double is mantissa * 2^exponent, the mantissa of Precision
\* bits, the first of them 1, written first bit first; zero has no bits.
\* Every operation rounds its exact result to the nearest double, ties to
\* the even mantissa.
Precision == 53

Zero == [mantissa |-> <<>>, exponent |-> 0]

\* The bits of an int in a given width, and in the width it needs
fixed(n, width) == [i \in 1..width |-> (n \div 2 ^ (width - i)) % 2]

binary(n) == fixed(n, CHOOSE width \in 0..30 : n < 2 ^ width /\ (width > 0 => n >= 2 ^ (width - 1)))

RECURSIVE number(_)
number(bits) ==
    IF Len(bits) <= 1 THEN (IF bits = <<>> THEN 0 ELSE bits[1])
    ELSE LET half == Len(bits) \div 2
         IN  number(SubSeq(bits, 1, half)) * 2 ^ (Len(bits) - half)
             + number(SubSeq(bits, half + 1, Len(bits)))

increment(bits) ==
    LET zeros == {i \in DOMAIN bits : bits[i] = 0}
    IN  IF zeros = {} THEN <<1>> \o [i \in DOMAIN bits |-> 0]
        ELSE [i \in DOMAIN bits |->
                IF i < SetMax(zeros) THEN bits[i] ELSE IF i = SetMax(zeros) THEN 1 ELSE 0]

\* The double nearest to bits * 2^exponent, or to a little more when sticky;
\* bits has more than Precision bits
round(bits, exponent, sticky) ==
    LET kept == SubSeq(bits, 1, Precision)
        dropped == SubSeq(bits, Precision + 1, Len(bits))
        half == dropped[1] = 1
        more == sticky \/ \E i \in 2..Len(dropped) : dropped[i] = 1
        up == half /\ (more \/ kept[Precision] = 1)
        mantissa == IF up THEN increment(kept) ELSE kept
    IN  [mantissa |-> SubSeq(mantissa, 1, Precision),
         exponent |-> exponent + Len(dropped) + (Len(mantissa) - Precision)]

\* 2^n modulo b, n <= 60
pow2mod(n, b) == ((2 ^ (n \div 2) % b) * (2 ^ (n - n \div 2) % b)) % b

\* The first n bits of r / b after the binary point, r < b, and what is left
\* of r after them
fraction(r, b, n) ==
    [bits |-> [i \in 1..n |-> (2 * ((r * pow2mod(i - 1, b)) % b)) \div b],
     r |-> (r * pow2mod(n, b)) % b]

\* The zeros of r / b between the binary point and its first 1, 0 < r < b
leading(r, b) ==
    LET zeros == CHOOSE z \in 0..30 : 2 ^ (z + 1) * r >= b /\ (z > 0 => 2 ^ z * r < b)
    IN  [zeros |-> zeros, r |-> 2 ^ zeros * r]

\* a / b of two ints, a >= 0 and b > 0
truediv(a, b) ==
    IF a = 0 THEN Zero
    ELSE LET whole == binary(a \div b)
             skipped == IF whole = <<>> THEN leading(a % b, b)
                        ELSE [zeros |-> 0, r |-> a % b]
             digits == fraction(skipped.r, b, Precision + 1 - Len(whole))
         IN  round(whole \o digits.bits, -(skipped.zeros + Len(digits.bits)),
                   digits.r # 0)

\* The bits of bits * n, of a mantissa and an int below 2^12, by thirds
times(bits, n) ==
    LET low == number(SubSeq(bits, 37, 53)) * n
        middle == number(SubSeq(bits, 19, 36)) * n + low \div 2 ^ 17
        high == number(SubSeq(bits, 1, 18)) * n + middle \div 2 ^ 18
    IN  binary(high) \o fixed(middle % 2 ^ 18, 18) \o fixed(low % 2 ^ 17, 17)

\* x * n of a float and an int, n >= 0
float_mul(x, n) ==
    IF x = Zero \/ n = 0 THEN Zero
    ELSE LET product == times(x.mantissa, n)
         IN  IF Len(product) = Precision THEN [x EXCEPT !.mantissa = product]
             ELSE round(product, x.exponent, FALSE)

\* math.ceil of a float that is not negative
math_ceil(x) ==
    IF x = Zero THEN 0
    ELSE IF x.exponent >= 0 THEN number(x.mantissa) * 2 ^ x.exponent
    ELSE IF -x.exponent >= Precision THEN 1
    ELSE LET point == Precision + x.exponent
         IN  number(SubSeq(x.mantissa, 1, point))
             + (IF \E i \in point + 1..Precision : x.mantissa[i] = 1 THEN 1 ELSE 0)

\* template_mode: the tracks replace_material_by_seg accepts, and the
\* material class each takes
is_ImportedMediaTrack(d, ref) ==
    ref[1] = "imported_tracks" /\ track_at(d, ref).track_type \in {"video", "audio"}

check_material_type(track, material) ==
    \/ track.track_type = "video" /\ material.cls = "Video_material"
    \/ track.track_type = "audio" /\ material.cls = "Audio_material"

\* The policies for a source range longer than the segment.
\* cut_material_tail cuts the range to the segment's duration and always
\* applies; extend_tail lengthens the segment and applies when the segment
\* then still ends by the start of the next one.
Extend_mode == {"cut_material_tail", "extend_tail"}

extend_applies(mode, track, i, new_duration) ==
    \/ mode = "cut_material_tail"
    \/ /\ mode = "extend_tail"
       /\ i < Len(track.segments) =>
            track.segments[i].start + new_duration <= track.segments[i + 1].start

extended(mode, seg, source_timerange) ==
    IF mode = "cut_material_tail"
    THEN [seg EXCEPT !.source_timerange =
                        Some([source_timerange EXCEPT !.duration = seg.dur])]
    ELSE [seg EXCEPT !.dur = source_timerange.duration,
                     !.source_timerange = Some(source_timerange)]

\* ImportedMediaTrack.process_timerange, for the segment at place i: a
\* shorter range cuts the segment's tail (Shrink_mode.cut_tail), a longer one
\* is handled by the first policy of handle_extend that applies
RECURSIVE try_extend(_, _, _, _)
try_extend(track, i, source_timerange, handle_extend) ==
    IF handle_extend = <<>> THEN [track |-> track, err |-> "ExtensionFailed"]
    ELSE IF extend_applies(Head(handle_extend), track, i, source_timerange.duration)
    THEN [track |-> [track EXCEPT !.segments[i] =
                        extended(Head(handle_extend), @, source_timerange)],
          err |-> "ok"]
    ELSE try_extend(track, i, source_timerange, Tail(handle_extend))

process_timerange(track, i, source_timerange, handle_shrink, handle_extend) ==
    IF source_timerange.duration > track.segments[i].dur
    THEN try_extend(track, i, source_timerange, handle_extend)
    ELSE [track |-> [track EXCEPT !.segments[i].dur = source_timerange.duration,
                                  !.segments[i].source_timerange = Some(source_timerange)],
          err |-> "ok"]

\* Mutant: the range of every material defaults to the segment's length.
replace_material_by_seg_segment_range(d, ref, segment_index, material, source_timerange, handle_shrink, handle_extend) ==
    IF ~is_ImportedMediaTrack(d, ref) THEN Raise(d, "TypeError")
    ELSE IF ~(0 <= segment_index /\ segment_index < Len(track_at(d, ref).segments))
    THEN Raise(d, "IndexError")
    ELSE IF ~check_material_type(track_at(d, ref), material) THEN Raise(d, "TypeError")
    ELSE
        LET i == segment_index + 1
            seg == track_at(d, ref).segments[i]
            range == IF source_timerange # None THEN source_timerange[1]
                     ELSE [start |-> 0, duration |-> seg.dur]
            processed == process_timerange(track_at(d, ref), i, range,
                                           handle_shrink, handle_extend)
        IN  IF processed.err # "ok" THEN Raise(d, processed.err)
            ELSE add_material(
                    [d EXCEPT ![ref[1]][ref[2]] =
                        [processed.track EXCEPT !.segments[i].material_id = material.id]],
                    material)

\* Mutant: the segment takes the material, and the registry the material,
\* before the time ranges are processed.
replace_material_by_seg_link_first(d, ref, segment_index, material, source_timerange, handle_shrink, handle_extend) ==
    IF ~is_ImportedMediaTrack(d, ref) THEN Raise(d, "TypeError")
    ELSE IF ~(0 <= segment_index /\ segment_index < Len(track_at(d, ref).segments))
    THEN Raise(d, "IndexError")
    ELSE IF ~check_material_type(track_at(d, ref), material) THEN Raise(d, "TypeError")
    ELSE
        LET i == segment_index + 1
            seg == track_at(d, ref).segments[i]
            range == IF source_timerange # None THEN source_timerange[1]
                     ELSE IF material.cls = "Video_material" /\ material.material_type = "photo"
                     THEN [start |-> 0, duration |-> seg.dur]
                     ELSE [start |-> 0, duration |-> material.duration]
            linked == add_material(
                        [d EXCEPT ![ref[1]][ref[2]].segments[i].material_id = material.id],
                        material).doc
            processed == process_timerange(track_at(linked, ref), i, range,
                                           handle_shrink, handle_extend)
        IN  IF processed.err # "ok" THEN Raise(linked, processed.err)
            ELSE Ok([linked EXCEPT ![ref[1]][ref[2]] = processed.track])

\* Script_file.replace_material_by_seg, of the track ref names, with
\* handle_shrink = cut_tail and handle_extend a list
replace_material_by_seg(d, ref, segment_index, material, source_timerange, handle_shrink, handle_extend) ==
    IF ~is_ImportedMediaTrack(d, ref) THEN Raise(d, "TypeError")
    ELSE IF ~(0 <= segment_index /\ segment_index < Len(track_at(d, ref).segments))
    THEN Raise(d, "IndexError")
    ELSE IF ~check_material_type(track_at(d, ref), material) THEN Raise(d, "TypeError")
    ELSE
        LET i == segment_index + 1
            seg == track_at(d, ref).segments[i]
            range == IF source_timerange # None THEN source_timerange[1]
                     ELSE IF material.cls = "Video_material" /\ material.material_type = "photo"
                     THEN [start |-> 0, duration |-> seg.dur]
                     ELSE [start |-> 0, duration |-> material.duration]
            processed == process_timerange(track_at(d, ref), i, range,
                                           handle_shrink, handle_extend)
        IN  IF processed.err # "ok" THEN Raise(d, processed.err)
            ELSE add_material(
                    [d EXCEPT ![ref[1]][ref[2]] =
                        [processed.track EXCEPT !.segments[i].material_id = material.id]],
                    material)

\* template_mode: the tracks replace_text accepts
is_ImportedTextTrack(d, ref) ==
    ref[1] = "imported_tracks" /\ track_at(d, ref).track_type = "text"

\* The content of a text material is a str: the JSON of a value written by
\* json.dumps, or characters that are no JSON.  A file may also hold an
\* object there, which json.load reads as a dict.
json_dumps(value) == <<"json", value>>
is_str(content) == content[1] \in {"json", "characters"}

\* A str is the sequence of its characters, a list of strs a sequence of them
text_str(characters) == [list |-> FALSE, value |-> characters]
text_list(strs) == [list |-> TRUE, value |-> strs]

\* replace_text.__recalc_style_range, of styles that do not start or end
\* before the text
recalc_style_range(old_len, new_len, styles) ==
    LET ranged == [i \in DOMAIN styles |->
                    [styles[i] EXCEPT !.range =
                        <<math_ceil(float_mul(truediv(styles[i].range[1], old_len), new_len)),
                          math_ceil(float_mul(truediv(styles[i].range[2], old_len), new_len))>>]]
    IN  SelectSeq(ranged, LAMBDA style : style.range[1] # style.range[2])

\* Lines 822-826 of replace_text for the i-th text material: what the
\* material then is, or the error json.loads or the division raises
rewritten(mat, text, recalc_style) ==
    IF mat.content[1] = "dict" THEN [mat |-> mat, err |-> "TypeError"]
    ELSE IF mat.content[1] # "json" THEN [mat |-> mat, err |-> "JSONDecodeError"]
    ELSE LET content == mat.content[2]
         IN  IF recalc_style /\ content.styles # <<>> /\ Len(content.text) = 0
             THEN [mat |-> mat, err |-> "ZeroDivisionError"]
             ELSE [mat |-> [mat EXCEPT !.content = json_dumps(
                                [content EXCEPT
                                    !.styles = IF recalc_style
                                               THEN recalc_style_range(Len(content.text),
                                                                       Len(text), @)
                                               ELSE @,
                                    !.text = text])],
                   err |-> "ok"]

\* The first place of the list holding the material of the id, 0 for none
index_of(materials, id) ==
    IF \E i \in DOMAIN materials : materials[i].id = id
    THEN CHOOSE i \in DOMAIN materials :
            /\ materials[i].id = id
            /\ \A j \in 1..i - 1 : materials[j].id # id
    ELSE 0

\* Lines 843-856 of replace_text: the texts in the slots of a template, slot
\* by slot; what was written stays written when a later slot raises
RECURSIVE replace_slots(_, _, _, _)
replace_slots(d, resources, texts, recalc_style) ==
    IF resources = <<>> \/ texts = <<>> THEN Ok(d)
    ELSE LET i == index_of(d.imported_materials.texts, Head(resources).text_material_id)
             mat == d.imported_materials.texts[i]
             new == IF is_str(mat.content)
                    THEN [mat |-> [mat EXCEPT !.content = <<"characters", Head(texts)>>],
                          err |-> "ok"]
                    ELSE rewritten(mat, Head(texts), recalc_style)
         IN  IF i = 0 THEN replace_slots(d, Tail(resources), Tail(texts), recalc_style)
             ELSE IF new.err # "ok" THEN Raise(d, new.err)
             ELSE replace_slots([d EXCEPT !.imported_materials.texts[i] = new.mat],
                                Tail(resources), Tail(texts), recalc_style)

\* Mutant: the texts beyond the slots of a template are left over.
replace_text_unchecked_count(d, ref, segment_index, text, recalc_style) ==
    IF ~is_ImportedTextTrack(d, ref) THEN Raise(d, "TypeError")
    ELSE IF ~(0 <= segment_index /\ segment_index < Len(track_at(d, ref).segments))
    THEN Raise(d, "IndexError")
    ELSE IF "texts" \notin DOMAIN d.imported_materials THEN Raise(d, "KeyError")
    ELSE
        LET material_id == track_at(d, ref).segments[segment_index + 1].material_id
            i == index_of(d.imported_materials.texts, material_id)
            new == rewritten(d.imported_materials.texts[i], text.value[1], recalc_style)
            plain == rewritten(d.imported_materials.texts[i], text.value, recalc_style)
        IN  IF i # 0
            THEN IF text.list /\ Len(text.value) # 1 THEN Raise(d, "ValueError")
                 ELSE LET mat == IF text.list THEN new ELSE plain
                      IN  IF mat.err # "ok" THEN Raise(d, mat.err)
                          ELSE Ok([d EXCEPT !.imported_materials.texts[i] = mat.mat])
            ELSE IF "text_templates" \notin DOMAIN d.imported_materials
            THEN Raise(d, "KeyError")
            ELSE LET t == index_of(d.imported_materials.text_templates, material_id)
                     resources == d.imported_materials.text_templates[t].text_info_resources
                     texts == IF text.list THEN text.value ELSE <<text.value>>
                 IN  IF t = 0 THEN Raise(d, "AssertionError")
                     ELSE replace_slots(d, resources, texts, recalc_style)

\* Script_file.replace_text, of the track ref names
replace_text(d, ref, segment_index, text, recalc_style) ==
    IF ~is_ImportedTextTrack(d, ref) THEN Raise(d, "TypeError")
    ELSE IF ~(0 <= segment_index /\ segment_index < Len(track_at(d, ref).segments))
    THEN Raise(d, "IndexError")
    ELSE IF "texts" \notin DOMAIN d.imported_materials THEN Raise(d, "KeyError")
    ELSE
        LET material_id == track_at(d, ref).segments[segment_index + 1].material_id
            i == index_of(d.imported_materials.texts, material_id)
            new == rewritten(d.imported_materials.texts[i], text.value[1], recalc_style)
            plain == rewritten(d.imported_materials.texts[i], text.value, recalc_style)
        IN  IF i # 0
            THEN IF text.list /\ Len(text.value) # 1 THEN Raise(d, "ValueError")
                 ELSE LET mat == IF text.list THEN new ELSE plain
                      IN  IF mat.err # "ok" THEN Raise(d, mat.err)
                          ELSE Ok([d EXCEPT !.imported_materials.texts[i] = mat.mat])
            ELSE IF "text_templates" \notin DOMAIN d.imported_materials
            THEN Raise(d, "KeyError")
            ELSE LET t == index_of(d.imported_materials.text_templates, material_id)
                     resources == d.imported_materials.text_templates[t].text_info_resources
                     texts == IF text.list THEN text.value ELSE <<text.value>>
                 IN  IF t = 0 THEN Raise(d, "AssertionError")
                     ELSE IF Len(texts) > Len(resources) THEN Raise(d, "ValueError")
                     ELSE replace_slots(d, resources, texts, recalc_style)

(***************************************************************************)
(* tools/redis_cache.py: the draft cache.  The state of the cache is the   *)
(* record [connected, data, latest]: whether the Redis server answers,     *)
(* the value under the key of each draft_id, and, as history, the value of *)
(* the last update_cache of the key that succeeded and that no             *)
(* delete_cache followed.                                                  *)
(***************************************************************************)
DraftIds == {"d1", "d2"}
Sites == {1, 2}

\* pickle.dumps and pickle.loads of _serialize_value and _deserialize_value
pickle_dumps(value) == <<"pickle", value>>
pickle_loads(data) == data[2]

EmptyCache ==
    [connected |-> TRUE, data |-> [key \in DraftIds |-> None],
     latest |-> [key \in DraftIds |-> None]]

\* Mutant: a key that holds a value keeps it.
update_cache_first_writer(c, key, value) ==
    IF ~c.connected THEN [cache |-> c, success |-> FALSE]
    ELSE IF c.data[key] # None THEN [cache |-> c, success |-> TRUE]
    ELSE [cache |-> [c EXCEPT !.data[key] = Some(pickle_dumps(value))], success |-> TRUE]

\* RedisCache.update_cache: setex of the pickled value
update_cache(c, key, value) ==
    IF ~c.connected THEN [cache |-> c, success |-> FALSE]
    ELSE [cache |-> [c EXCEPT !.data[key] = Some(pickle_dumps(value))], success |-> TRUE]

\* RedisCache.get_cache: None without connection and for a key without value
get_cache(c, key) ==
    IF ~c.connected THEN None
    ELSE IF c.data[key] = None THEN None
    ELSE Some(pickle_loads(c.data[key][1]))

\* RedisCache.delete_cache: it succeeded when the key held a value
delete_cache(c, key) ==
    IF ~c.connected THEN [cache |-> c, success |-> FALSE]
    ELSE [cache |-> [c EXCEPT !.data[key] = None], success |-> c.data[key] # None]

(***************************************************************************)
(* add_effect_impl.py and create_draft.py: a call of add_effect_impl at a  *)
(* call site.  The record of a site holds the position of the call between *)
(* its commands to Redis, its arguments, the script it holds and the       *)
(* exception it raised.                                                    *)
(***************************************************************************)
Idle ==
    [pc |-> "idle", draft_id |-> None, start |-> 0, dur |-> 0, effect_type |-> "",
     track_name |-> None, params |-> None, script |-> None, err |-> "ok"]

\* The members of Video_scene_effect_type named in calls and the parameters
\* the effect declares
Video_scene_effect_type == {"scene"}
effect_params == <<"speed">>

\* params[::-1]
reversed(params) == [i \in DOMAIN params |-> params[Len(params) + 1 - i]]

\* add_effect_impl, lines 38-69: the steps made on the script between
\* get_or_create_draft and update_cache.  Effect_segment takes at most the
\* parameters the effect declares, each None or in 0..100; the segment of
\* the model does not show their values.
add_effect_impl_edit(script, effect_type, start, dur, track_name, params) ==
    IF effect_type \notin Video_scene_effect_type THEN Raise(script, "KeyError")
    ELSE
        LET found == IF track_name # None
                     THEN get_imported_track(script, "effect", track_name, None)
                     ELSE [track |-> None, err |-> "TrackNotFound"]
            tracked == IF track_name = None
                       THEN add_track(script, "effect", None, FALSE, 0, None)
                       ELSE IF found.err = "TrackNotFound"
                       THEN add_track(script, "effect", track_name, FALSE, 0, None)
                       ELSE IF found.err = "ok" THEN Ok(script)
                       ELSE Raise(script, found.err)
        IN  IF tracked.err # "ok" THEN tracked
            ELSE IF params = None THEN Raise(tracked.doc, "TypeError")
            ELSE LET given == reversed(params[1])
                     segment == Effect_segment(next_segment(tracked.doc), start, dur)
                 IN  IF \/ Len(given) > Len(effect_params)
                        \/ \E i \in DOMAIN given : given[i] # None /\ given[i][1] \notin 0..100
                     THEN Raise(tracked.doc, "ValueError")
                     ELSE add_effect(tracked.doc, segment, track_name)

(***************************************************************************)
(* tools/redis_queue.py and export_progress_cache.py: the export queue.    *)
(* Its state in Redis is the record [queue, processing, results,           *)
(* progress]: the list export_task_queue, its head at the left, the hash   *)
(* export_processing, the keys export_result:<draft_id> and the keys       *)
(* export_progress:progress:<draft_id>.  The commands go over the          *)
(* connection of the draft cache: up tells whether the server answers.     *)
(***************************************************************************)
Threads == {1, 2}

json_loads(data) == data[2]

EmptyQueue ==
    [queue |-> <<>>, processing |-> [key \in DraftIds |-> None],
     results |-> [key \in DraftIds |-> None], progress |-> [key \in DraftIds |-> None]]

\* The task_data a caller submits for a draft
task_data_of(draft_id) == [draft_id |-> draft_id, status |-> "new", retry_count |-> None]

\* ExportProgressCache.set_progress: it calls self.redis_cache.set_string,
\* and RedisCache (tools/redis_cache.py) defines no set_string
set_progress(q, up, draft_name, status) ==
    [queue |-> q, err |-> "AttributeError"]

\* ExportQueueManager.submit_export_task
submit_export_task(q, c, task_data) ==
    IF task_data.draft_id = None THEN [queue |-> q, err |-> "Exception"]
    ELSE IF get_cache(c, task_data.draft_id[1]) = None THEN [queue |-> q, err |-> "Exception"]
    ELSE IF ~c.connected THEN [queue |-> q, err |-> "ConnectionError"]
    ELSE LET task == [task_data EXCEPT !.status = "queued"]
             pushed == [q EXCEPT !.queue = <<json_dumps(task)>> \o @]
         IN  set_progress(pushed, c.connected, task_data.draft_id[1], "queued")

\* ExportQueueManager.complete_task: an exception is logged
complete_task(q, up, draft_id, success) ==
    IF ~up THEN q
    ELSE [q EXCEPT !.processing[draft_id] = None,
                   !.results[draft_id] = Some([draft_id |-> draft_id, success |-> success])]

\* ExportQueueManager.get_next_task: brpop takes the task at the right end
get_next_task(q, up) ==
    IF ~up \/ q.queue = <<>> THEN [queue |-> q, task |-> None]
    ELSE LET task == [json_loads(q.queue[Len(q.queue)]) EXCEPT !.status = "processing"]
         IN  [queue |-> [q EXCEPT !.queue = SubSeq(@, 1, Len(@) - 1),
                                  !.processing[task.draft_id[1]] = Some(json_dumps(task))],
              task |-> Some(task)]

\* ExportQueueManager.requeue_task: an exception is logged
requeue_task(q, up, task_data) ==
    IF ~up THEN q
    ELSE LET draft_id == task_data.draft_id[1]
             removed == [q EXCEPT !.processing[draft_id] = None]
             retry_count == (IF task_data.retry_count = None THEN 0
                             ELSE task_data.retry_count[1]) + 1
             task == [task_data EXCEPT !.status = "queued",
                                       !.retry_count = Some(retry_count)]
             pushed == [removed EXCEPT !.queue = <<json_dumps(task)>> \o @]
         IN  IF retry_count > 3 THEN complete_task(removed, up, draft_id, FALSE)
             ELSE set_progress(pushed, up, draft_id, "queued").queue

\* ExportQueueManager.__init__, and set_local_task_running
ExportQueueManager == [is_processing_local |-> FALSE, current_local_task |-> None]

set_local_task_running(m, task_id, running) ==
    [is_processing_local |-> running,
     current_local_task |-> IF running THEN task_id ELSE None]

\* ExportTaskProcessor.__init__ on Windows
ExportTaskProcessor == [is_running |-> FALSE, processor_thread |-> None, is_windows |-> TRUE]

\* A thread that was not started; the positions of a started thread are
\* "loop" (the test of while), "check" (is_local_task_running), "get"
\* (get_next_task), "enter", "work" and "finally" (_process_task), "exited"
NotStarted == [pc |-> "none", task |-> None]

\* _process_task, lines 325-381: the try block after set_local_task_running
\* and the handler of its exception, for the outcomes of save_draft_impl and
\* of _execute_export_draft.  An exception of the handler leaves the method.
handle_failure(q, up, task_data) ==
    LET failed == set_progress(q, up, task_data.draft_id[1], "failed")
    IN  IF failed.err # "ok" THEN failed
        ELSE [queue |-> requeue_task(failed.queue, up, task_data), err |-> "ok"]

_process_task(q, up, task_data, saved, exported) ==
    LET draft_id == task_data.draft_id[1]
        begun == set_progress(q, up, draft_id, "processing")
        halfway == set_progress(begun.queue, up, draft_id, "processing")
    IN  IF begun.err # "ok" THEN handle_failure(begun.queue, up, task_data)
        ELSE IF ~saved THEN handle_failure(begun.queue, up, task_data)
        ELSE IF halfway.err # "ok" THEN handle_failure(halfway.queue, up, task_data)
        ELSE IF ~exported THEN handle_failure(halfway.queue, up, task_data)
        ELSE [queue |-> complete_task(halfway.queue, up, draft_id, TRUE), err |-> "ok"]

(***************************************************************************)
(* tools/upload_manager.py: an upload with fallback.  The call under way   *)
(* is the record [pc, on_success, on_failure, temp_file, providers,        *)
(* callbacks, url, result, err]: where it is, whether it was given each    *)
(* callback, whether its temporary file exists, the providers it has       *)
(* called with what they reported, the callbacks it has called, the URL    *)
(* it holds, and what it returned or raised.                               *)
(***************************************************************************)
\* The URLs of the providers
QiniuUrl == "https://qiniu/uploads/file"
AliyunUrl == "https://aliyun/uploads/file"

\* No call is under way
UploadIdle ==
    [pc |-> "idle", on_success |-> FALSE, on_failure |-> FALSE, temp_file |-> FALSE,
     providers |-> <<>>, callbacks |-> <<>>, url |-> None, result |-> None, err |-> "ok"]

\* QiniuUploader.upload_file and AliyunUploader.upload_file of a local file:
\* (True, url, ...) or (False, message, {}); both catch their exceptions
upload_file(u, provider, url, success) ==
    [u EXCEPT !.providers = Append(@, <<provider, success>>),
              !.url = IF success THEN Some(url) ELSE @]

\* A callback that was given is called; it returns or raises
invoked(u, callback, given) ==
    IF given THEN [u EXCEPT !.callbacks = Append(@, callback)] ELSE u

\* return of a value from the try statement, and an exception that leaves
\* it: the finally clause runs next
returns(u, value) == [u EXCEPT !.pc = "finally", !.result = Some(value)]
leaves(u, e) == [u EXCEPT !.pc = "finally", !.err = e]

(***************************************************************************)
(* The state machine.                                                      *)
(***************************************************************************)
Init ==
    /\ doc = Script_file
    /\ file = None
    /\ last = [op |-> "__init__", err |-> "ok", changed |-> FALSE, after_load |-> FALSE]
    /\ IS_CAPCUT_ENV = FALSE
    /\ cache = EmptyCache
    /\ sites = [site \in Sites |-> Idle]
    /\ export_queue = EmptyQueue
    /\ manager = ExportQueueManager
    /\ processor = ExportTaskProcessor
    /\ threads = [thread \in Threads |-> NotStarted]
    /\ upload = UploadIdle

\* A call of a method of the document that returned or raised r.  The
\* model stops growing at MaxTracks authored tracks and MaxSegments segments.
Call(op, r) ==
    /\ Len(r.doc.tracks) <= MaxTracks
    /\ segment_count(r.doc) <= MaxSegments
    /\ \A list \in DOMAIN r.doc.materials : Len(r.doc.materials[list]) <= 2 * MaxSegments
    /\ doc' = r.doc
    /\ last' = [op |-> op, err |-> r.err, changed |-> r.doc # doc,
                after_load |-> last.op = "load_template"]
    /\ UNCHANGED <<file, IS_CAPCUT_ENV, services>>

AddTrack(track_type, track_name, mute, relative_index, absolute_index) ==
    Call("add_track",
         add_track(doc, track_type, track_name, mute, relative_index, absolute_index))

AddSegment(segment, track_name) ==
    Call("add_segment", add_segment(doc, segment, track_name))

AddEffect(start, dur, track_name) ==
    Call("add_effect",
         add_effect(doc, Effect_segment(next_segment(doc), start, dur), track_name))

AddFilter(start, dur, track_name) ==
    Call("add_filter",
         add_filter(doc, Filter_segment(next_segment(doc), start, dur), track_name))

AddMaterial(material) ==
    Call("add_material", add_material(doc, material))

ImportSrt(c) ==
    Call("import_srt", import_srt(doc, c))

\* dump(file_path): dumps() and the write of its output.  The model stops
\* growing at registry lists of 2 * MaxSegments entries.
Dump ==
    /\ doc' = dumps(doc, IS_CAPCUT_ENV)
    /\ \A list \in DOMAIN doc'.materials : Len(doc'.materials[list]) <= 2 * MaxSegments
    /\ file' = Some(doc'.content)
    /\ last' = [op |-> "dumps", err |-> "ok",
                changed |-> [doc' EXCEPT !.content = doc.content] # doc,
                after_load |-> last.op = "load_template"]
    /\ UNCHANGED <<IS_CAPCUT_ENV, services>>

\* load_template(json_path) of the file written before, a file of at most
\* MaxTracks tracks and 2 * MaxSegments materials of a kind: a new document
LoadTemplate ==
    /\ file # None
    /\ Len(file[1].tracks) <= MaxTracks
    /\ \A key \in DOMAIN file[1].materials : Len(file[1].materials[key]) <= 2 * MaxSegments
    /\ doc' = load_template(file[1])
    /\ last' = [op |-> "load_template", err |-> "ok", changed |-> TRUE,
                after_load |-> FALSE]
    /\ UNCHANGED <<file, IS_CAPCUT_ENV, services>>

\* load_template(json_path) of a template file
OpenTemplate(content) ==
    /\ doc' = load_template(content)
    /\ last' = [op |-> "load_template", err |-> "ok", changed |-> TRUE,
                after_load |-> FALSE]
    /\ UNCHANGED <<file, IS_CAPCUT_ENV, services>>

\* import_track of the track at a place of the source document.  The model
\* stops growing at MaxTracks imported tracks.
ImportTrack(source_file, place, offset, new_name, relative_index) ==
    LET r == Script_file_import_track(doc, source_file, source_file.imported_tracks[place],
                                      offset, new_name, relative_index)
    IN  /\ Len(r.doc.imported_tracks) <= MaxTracks
        /\ doc' = r.doc
        /\ last' = [op |-> "import_track", err |-> r.err, changed |-> r.doc # doc,
                    after_load |-> last.op = "load_template"]
        /\ UNCHANGED <<file, IS_CAPCUT_ENV, services>>

\* get_imported_track: the document is only read
GetImportedTrack(track_type, name, index) ==
    /\ last' = [op |-> "get_imported_track",
                err |-> get_imported_track(doc, track_type, name, index).err,
                changed |-> FALSE, after_load |-> last.op = "load_template"]
    /\ UNCHANGED <<doc, file, IS_CAPCUT_ENV, services>>

ReplaceMaterialByName(material_name, material, replace_crop) ==
    /\ doc' = replace_material_by_name(doc, material_name, material, replace_crop).doc
    /\ last' = [op |-> "replace_material_by_name",
                err |-> replace_material_by_name(doc, material_name, material,
                                                 replace_crop).err,
                changed |-> doc' # doc, after_load |-> last.op = "load_template"]
    /\ UNCHANGED <<file, IS_CAPCUT_ENV, services>>

ReplaceMaterialBySeg(ref, segment_index, material, source_timerange, handle_extend) ==
    LET r == replace_material_by_seg(doc, ref, segment_index, material, source_timerange,
                                     "cut_tail", handle_extend)
    IN  /\ doc' = r.doc
        /\ last' = [op |-> "replace_material_by_seg", err |-> r.err,
                    changed |-> r.doc # doc, after_load |-> last.op = "load_template"]
        /\ UNCHANGED <<file, IS_CAPCUT_ENV, services>>

ReplaceText(ref, segment_index, text, recalc_style) ==
    LET r == replace_text(doc, ref, segment_index, text, recalc_style)
    IN  /\ doc' = r.doc
        /\ last' = [op |-> "replace_text", err |-> r.err,
                    changed |-> r.doc # doc, after_load |-> last.op = "load_template"]
        /\ UNCHANGED <<file, IS_CAPCUT_ENV, services>>

(***************************************************************************)
(* Placement of segments: tracks of three types, the segments of            *)
(* add_segment, add_effect and add_filter at every place.                  *)
(***************************************************************************)
Times == {0, 1}
Durations == {1, 2}

PlacedTypes == {"video", "effect", "filter"}
PlacedNames == {None} \cup {Some(t) : t \in PlacedTypes}

PlacedSegments(n) ==
    {Video_segment(n, start, dur, 1, FALSE) : start \in Times, dur \in Durations}

Next ==
    \/ \E track_type \in PlacedTypes : AddTrack(track_type, None, FALSE, 0, None)
    \/ \E segment \in PlacedSegments(next_segment(doc)), track_name \in PlacedNames :
            AddSegment(segment, track_name)
    \/ \E start \in Times, dur \in Durations, track_name \in PlacedNames :
            AddEffect(start, dur, track_name)
    \/ \E start \in Times, dur \in Durations, track_name \in PlacedNames :
            AddFilter(start, dur, track_name)

Spec == Init /\ [][Next]_vars

(***************************************************************************)
(* Registration of materials: video and audio tracks, their segments with  *)
(* and without attached materials, add_material.                           *)
(***************************************************************************)
RegisteredTypes == {"video", "audio"}

RegisteredSegments(n) ==
    {Video_segment(n, start, 1, k, rich) : start \in Times, k \in {1, 2}, rich \in BOOLEAN}
    \cup {Audio_segment(n, start, 1, 1, rich) : start \in Times, rich \in BOOLEAN}

Materials ==
    {Obj("Video_material", <<"video", 1>>), Obj("Video_material", <<"video", 2>>),
     Obj("Audio_material", <<"audio", 1>>)}

NextMaterials ==
    \/ \E track_type \in RegisteredTypes : AddTrack(track_type, None, FALSE, 0, None)
    \/ \E segment \in RegisteredSegments(next_segment(doc)) : AddSegment(segment, None)
    \/ \E material \in Materials : AddMaterial(material)

SpecMaterials == Init /\ [][NextMaterials]_vars

(***************************************************************************)
(* Subtitles: text tracks, text segments, import_srt.                      *)
(***************************************************************************)
TextSegments(n) ==
    {Text_segment(n, start, 1, <<TextLine>>, None, None, None) : start \in Times}
    \cup {Text_segment(n, start, 1, <<TextLine>>,
                       Some(Obj("Segment_animations", <<"animation", n>>)),
                       Some(Obj("TextBubble", <<"bubble", n>>)),
                       Some(Obj("TextEffect", <<"text_effect", n>>))) : start \in Times}

\* The bubble and the flower-text effect a caller of import_srt holds
TheBubble == Obj("TextBubble", <<"bubble", 0>>)
TheEffect == Obj("TextEffect", <<"text_effect", 0>>)

\* Subtitle texts: one cue, with a final blank line or none, and a text whose
\* first line is no number
SrtTexts ==
    {<<DigitLine, StampLine(start, start + 1), TextLine>> : start \in Times}
    \cup {<<DigitLine, StampLine(0, 1), TextLine, BlankLine>>,
          <<TextLine, StampLine(0, 1), TextLine>>}

SrtCalls ==
    {[lines |-> lines, track_name |-> track_name, time_offset |-> 0,
      style_reference |-> FALSE, clip_settings |-> TRUE, font |-> font,
      bubble |-> styled[1], effect |-> styled[2]] :
        lines \in SrtTexts, track_name \in {"text", "subtitles"},
        font \in {None, Some(TRUE)},
        styled \in {<<None, None>>, <<Some(TheBubble), Some(TheEffect)>>}}

NextSrt ==
    \/ AddTrack("text", None, FALSE, 0, None)
    \/ \E segment \in TextSegments(next_segment(doc)) : AddSegment(segment, Some("text"))
    \/ \E c \in SrtCalls : ImportSrt(c)

SpecSrt == Init /\ [][NextSrt]_vars

(***************************************************************************)
(* Export and reload: two video tracks and a text track, a segment on the   *)
(* first track of its type, dump and load_template of the file.            *)
(***************************************************************************)
ExportedTracks == {<<"video", None>>, <<"video", Some("A")>>, <<"text", None>>}

ExportedSegments(n) ==
    {Video_segment(n, 0, 1, 1, FALSE), Text_segment(n, 0, 1, <<TextLine>>, None, None, None)}

NextExport ==
    \/ \E track \in ExportedTracks : AddTrack(track[1], track[2], FALSE, 0, None)
    \/ \E segment \in ExportedSegments(next_segment(doc)) : AddSegment(segment, None)
    \/ Dump
    \/ LoadTemplate

SpecExport == Init /\ [][NextExport]_vars

(***************************************************************************)
(* Tracks: add_track with every argument, and a segment on the video track. *)
(***************************************************************************)
TrackTypes == {"video", "audio", "text"}
TrackNames == {None, Some("video"), Some("A")}
RelativeIndexes == {0, 1}
AbsoluteIndexes == {None, Some(1)}

NextTracks ==
    \/ \E track_type \in TrackTypes, track_name \in TrackNames, mute \in BOOLEAN,
          relative_index \in RelativeIndexes, absolute_index \in AbsoluteIndexes :
            AddTrack(track_type, track_name, mute, relative_index, absolute_index)
    \/ AddSegment(Video_segment(next_segment(doc), 0, 1, 1, FALSE), None)

SpecTracks == Init /\ [][NextTracks]_vars

(***************************************************************************)
(* Import of tracks: documents created empty or loaded from a template     *)
(* file, import_track of the tracks of template documents.                 *)
(***************************************************************************)
\* A draft with a video track of two segments and a text track of one, and
\* the file dump writes for it
TemplateDraft ==
    LET tracked == add_track(add_track(Script_file, "video", None, FALSE, 0, None).doc,
                             "text", None, FALSE, 0, None).doc
        first == add_segment(tracked, Video_segment(1, 0, 1, 1, FALSE), None).doc
        second == add_segment(first, Video_segment(2, 1, 1, 1, FALSE), None).doc
    IN  add_segment(second, Text_segment(3, 0, 1, <<TextLine>>, None, None, None), None).doc

TemplateFile == dumps(TemplateDraft, FALSE).content

\* The file of a draft without tracks
EmptyFile == dumps(Script_file, FALSE).content

\* A partially copied file: the tracks of TemplateFile without its videos
BrokenFile == [TemplateFile EXCEPT !.materials.videos = <<>>]

OpenedFiles == {EmptyFile, TemplateFile}
SourceFiles == {TemplateFile, BrokenFile}
SourceDocuments == {load_template(content) : content \in SourceFiles}

Offsets == {-1, 0, 1}
NewNames == {None, Some("video")}
NewIndexes == {None, Some(1)}

\* The calls of import_track made: every offset, the track as it is or with
\* a new name and a new index
EditableTypes == {"video", "audio", "text"}
TrackFilters == {None, Some("video"), Some("text")}
TrackIndexes == {None, Some(0), Some(1), Some(-1)}

\* The calls of get_imported_track made: no filter, a name, an index
GetCalls ==
    {<<None, None>>, <<Some("video"), None>>, <<None, Some(0)>>, <<None, Some(1)>>}

ImportCalls ==
    {[offset |-> offset, new_name |-> new[1], relative_index |-> new[2]] :
        offset \in Offsets, new \in {<<None, None>>, <<Some("video"), Some(1)>>}}

NextImport ==
    \/ \E content \in OpenedFiles : OpenTemplate(content)
    \/ AddTrack("video", None, FALSE, 0, None)
    \/ \E source_file \in SourceDocuments, c \in ImportCalls :
       \E place \in DOMAIN source_file.imported_tracks :
            ImportTrack(source_file, place, c.offset, c.new_name, c.relative_index)
    \/ \E track_type \in EditableTypes, c \in GetCalls :
            GetImportedTrack(track_type, c[1], c[2])

SpecImport == Init /\ [][NextImport]_vars

(***************************************************************************)
(* Replacement in a loaded document: the file of a draft with two videos   *)
(* on a video track and a text, its materials replaced by name.            *)
(***************************************************************************)
MediaDraft ==
    LET tracked == add_track(add_track(Script_file, "video", None, FALSE, 0, None).doc,
                             "text", None, FALSE, 0, None).doc
        first == add_segment(tracked, Video_segment(1, 0, 2, 1, FALSE), None).doc
        second == add_segment(first, Video_segment(2, 2, 1, 2, FALSE), None).doc
    IN  add_segment(second, Text_segment(3, 0, 1, <<TextLine>>, None, None, None), None).doc

\* The file of MediaDraft, the records of its videos as local_materials
\* writes them: "a" of duration 2 and "b" of duration 1
MediaFile ==
    [dumps(MediaDraft, FALSE).content EXCEPT
        !.materials.videos = <<material_record(Video_material(1, "a", 2, "video")),
                               material_record(Video_material(2, "b", 1, "video"))>>]

\* The materials a caller replaces with
NewMaterials ==
    {Video_material(7, "a", 3, "video"), Video_material(8, "c", 1, "video"),
     Video_material(9, "p", 1, "photo"), Audio_material(7, "a", 1)}

MaterialNames == {"a", "b", "c"}

\* The arguments of replace_material_by_seg: the tracks of the document, the
\* places on them and one before and one after, whole materials or a range
\* of them, the policies in either order, one of them, none
refs(d) ==
    {<<"tracks", i>> : i \in DOMAIN d.tracks}
    \cup {<<"imported_tracks", i>> : i \in DOMAIN d.imported_tracks}
SegmentIndexes == {-1, 0, 1, 2}
SourceRanges == {None, Some([start |-> 0, duration |-> 3])}
ExtendLists ==
    {<<>>, <<"extend_tail">>, <<"cut_material_tail">>,
     <<"extend_tail", "cut_material_tail">>, <<"cut_material_tail", "extend_tail">>}

NextReplace ==
    \/ OpenTemplate(MediaFile)
    \/ \E material_name \in MaterialNames, material \in NewMaterials, replace_crop \in BOOLEAN :
            ReplaceMaterialByName(material_name, material, replace_crop)

SpecReplace == Init /\ [][NextReplace]_vars

(***************************************************************************)
(* SpecSegment: the segments of a loaded template take new materials.      *)
(***************************************************************************)
NextSegment ==
    \/ OpenTemplate(MediaFile)
    \/ \E ref \in refs(doc), segment_index \in SegmentIndexes, material \in NewMaterials,
          source_timerange \in SourceRanges, handle_extend \in ExtendLists :
            ReplaceMaterialBySeg(ref, segment_index, material, source_timerange,
                                 handle_extend)

SpecSegment == Init /\ [][NextSegment]_vars

(***************************************************************************)
(* SpecText: the text segments of a loaded template take new texts.        *)
(***************************************************************************)
characters(n) == [i \in 1..n |-> "a"]

text_style(start, end, font) == [range |-> <<start, end>>, font |-> font]

text_record(k, length, styles) ==
    [id |-> <<"text", k>>, type |-> "text",
     content |-> json_dumps([text |-> characters(length), styles |-> styles])]

\* A text track of a plain text of 10 characters and of a text from a
\* template of two slots
TextDraft ==
    LET tracked == add_track(Script_file, "text", None, FALSE, 0, None).doc
        first == add_segment(tracked, Text_segment(3, 0, 1, <<TextLine>>, None, None, None), None).doc
    IN  add_segment(first, Text_segment(5, 1, 1, <<TextLine>>, None, None, None), None).doc

TextFile ==
    [dumps(TextDraft, FALSE).content EXCEPT
        !.materials.texts =
            <<text_record(3, 10, <<text_style(0, 2, 1), text_style(2, 6, 2), text_style(6, 10, 3)>>),
              text_record(6, 2, <<text_style(0, 2, 1)>>),
              text_record(7, 2, <<text_style(0, 2, 1)>>)>>,
        !.materials.text_templates =
            <<[id |-> <<"text", 5>>, type |-> "text_template_subtitle",
               text_info_resources |-> <<[text_material_id |-> <<"text", 6>>],
                                         [text_material_id |-> <<"text", 7>>]>>]>>]

TextLengths == {5, 14, 42}
NewTexts ==
    {text_str(characters(n)) : n \in TextLengths}
    \cup {text_list(<<characters(1)>>), text_list(<<characters(1), characters(1), characters(1)>>)}

\* The calls of replace_text: a str for the plain text, with recalc_style and
\* once without, a list for the text of the template, a place after the last
TextCalls ==
    {<<0, text_str(characters(n)), TRUE>> : n \in TextLengths}
    \cup {<<0, text_str(characters(5)), FALSE>>,
          <<1, text_list(<<characters(1)>>), TRUE>>,
          <<1, text_list(<<characters(1), characters(1), characters(1)>>), TRUE>>,
          <<2, text_str(characters(5)), TRUE>>}

\* The documents whose styles end within the longest of the texts: without
\* recalc_style a style may end after its text, and the next replacement
\* moves it further
styles_within(d, length) ==
    \A mat \in Range(d.imported_materials.texts) :
        mat.content[1] = "json" =>
            \A style \in Range(mat.content[2].styles) : style.range[2] <= length

NextText ==
    \/ OpenTemplate(TextFile)
    \/ \E ref \in refs(doc), call \in TextCalls :
            /\ ReplaceText(ref, call[1], call[2], call[3])
            /\ styles_within(doc', SetMax(TextLengths))

SpecText == Init /\ [][NextText]_vars

(***************************************************************************)
(* SpecCache: calls of add_effect_impl from two call sites on the drafts   *)
(* of the cache, between them deletions, the expiry of keys and the loss   *)
(* of the connection.  A step of a call is one command to Redis with what  *)
(* the call does on its own script before it.                              *)
(***************************************************************************)
draft == <<doc, file, last, IS_CAPCUT_ENV>>

\* The cache after update_cache(key, value), its history with it
stored(c, key, value) ==
    LET r == update_cache(c, key, value)
    IN  [r.cache EXCEPT !.latest[key] = IF r.success THEN Some(value) ELSE @]

\* The site after its call has returned or raised: the draft_id, the script
\* the call held and the exception
returned(s, script, e) ==
    [Idle EXCEPT !.pc = "returned", !.draft_id = s.draft_id, !.script = script, !.err = e]
raised(s, e) == returned(s, s.script, e)

\* add_effect_impl is called, lines 32-33 of get_or_create_draft
AddEffectImpl(site, c) ==
    /\ sites[site].pc \in {"idle", "returned"}
    /\ sites' = [sites EXCEPT ![site] =
                    LET called == [Idle EXCEPT !.draft_id = c.draft_id, !.start = c.start,
                                               !.dur = c.dur, !.effect_type = c.effect_type,
                                               !.track_name = c.track_name,
                                               !.params = c.params]
                    IN  IF c.draft_id = None THEN raised(called, "ValueError")
                        ELSE [called EXCEPT !.pc = "contains"]]
    /\ UNCHANGED <<draft, upload, cache, exports>>

\* get_or_create_draft, line 35: draft_id in DRAFT_CACHE
Contains(site) ==
    /\ sites[site].pc = "contains"
    /\ sites' = [sites EXCEPT ![site].pc =
                    IF get_cache(cache, sites[site].draft_id[1]) # None
                    THEN "touch" ELSE "create"]
    /\ UNCHANGED <<draft, upload, cache, exports>>

\* get_or_create_draft, line 39: DRAFT_CACHE[draft_id], the argument
Touch(site) ==
    /\ sites[site].pc = "touch"
    /\ LET result == get_cache(cache, sites[site].draft_id[1])
       IN  sites' = [sites EXCEPT ![site] =
                        IF result = None THEN raised(@, "KeyError")
                        ELSE [@ EXCEPT !.pc = "update", !.script = result]]
    /\ UNCHANGED <<draft, upload, cache, exports>>

\* get_or_create_draft, line 39: update_cache of the value read
Update(site) ==
    /\ sites[site].pc = "update"
    /\ cache' = stored(cache, sites[site].draft_id[1], sites[site].script[1])
    /\ sites' = [sites EXCEPT ![site].pc = "fetch", ![site].script = None]
    /\ UNCHANGED <<draft, upload, exports>>

\* get_or_create_draft, line 40: DRAFT_CACHE[draft_id], the script returned
Fetch(site) ==
    /\ sites[site].pc = "fetch"
    /\ LET result == get_cache(cache, sites[site].draft_id[1])
       IN  sites' = [sites EXCEPT ![site] =
                        IF result = None THEN raised(@, "KeyError")
                        ELSE [@ EXCEPT !.pc = "edit", !.script = result]]
    /\ UNCHANGED <<draft, upload, cache, exports>>

\* get_or_create_draft, lines 44-49, and create_draft: a new script, stored
Create(site) ==
    /\ sites[site].pc = "create"
    /\ cache' = stored(cache, sites[site].draft_id[1], Script_file)
    /\ sites' = [sites EXCEPT ![site].pc = "edit", ![site].script = Some(Script_file)]
    /\ UNCHANGED <<draft, upload, exports>>

\* add_effect_impl, lines 38-72: the effect is added to the script and the
\* script is stored.  The model stops growing at MaxTracks tracks and
\* MaxSegments segments of a script.
Edit(site) ==
    /\ sites[site].pc = "edit"
    /\ LET s == sites[site]
           r == add_effect_impl_edit(s.script[1], s.effect_type, s.start, s.dur,
                                     s.track_name, s.params)
       IN  /\ Len(r.doc.tracks) <= MaxTracks
           /\ segment_count(r.doc) <= MaxSegments
           /\ sites' = [sites EXCEPT ![site] =
                            returned(@, Some(r.doc), r.err)]
           /\ cache' = IF r.err # "ok" THEN cache ELSE stored(cache, s.draft_id[1], r.doc)
    /\ UNCHANGED <<draft, upload, exports>>

\* delete_cache(key) by another caller
DeleteCache(key) ==
    /\ cache' = [delete_cache(cache, key).cache EXCEPT
                    !.latest[key] = IF cache.connected THEN None ELSE @]
    /\ cache' # cache
    /\ UNCHANGED <<draft, upload, sites, exports>>

\* The time to live of setex has passed for the key
Expire(key) ==
    /\ cache.data[key] # None
    /\ cache' = [cache EXCEPT !.data[key] = None]
    /\ UNCHANGED <<draft, upload, sites, exports>>

\* The server stops answering, and answers again
Disconnect ==
    /\ cache.connected
    /\ cache' = [cache EXCEPT !.connected = FALSE]
    /\ UNCHANGED <<draft, upload, sites, exports>>

Connect ==
    /\ ~cache.connected
    /\ cache' = [cache EXCEPT !.connected = TRUE]
    /\ UNCHANGED <<draft, upload, sites, exports>>

\* The calls of add_effect_impl made: with and without params, on a named
\* track and without a name, with more parameters than the effect has,
\* of an effect that does not exist, without draft_id
EffectCall(draft_id, effect_type, start, track_name, params) ==
    [draft_id |-> draft_id, effect_type |-> effect_type, start |-> start, dur |-> 1,
     track_name |-> track_name, params |-> params]

EffectCalls ==
    {EffectCall(Some("d1"), "scene", 0, Some("effect_01"), Some(<<>>)),
     EffectCall(Some("d1"), "scene", 1, Some("effect_01"), Some(<<Some(50)>>)),
     EffectCall(Some("d1"), "scene", 0, Some("effect_01"), None),
     EffectCall(Some("d2"), "scene", 0, None, None),
     EffectCall(Some("d2"), "scene", 0, None, Some(<<None, Some(50)>>)),
     EffectCall(Some("d2"), "glow", 0, Some("effect_01"), Some(<<>>)),
     EffectCall(None, "scene", 0, Some("effect_01"), Some(<<>>))}

NextCache ==
    \/ \E site \in Sites, c \in EffectCalls : AddEffectImpl(site, c)
    \/ \E site \in Sites : Contains(site)
    \/ \E site \in Sites : Touch(site)
    \/ \E site \in Sites : Update(site)
    \/ \E site \in Sites : Fetch(site)
    \/ \E site \in Sites : Create(site)
    \/ \E site \in Sites : Edit(site)
    \/ \E key \in DraftIds : DeleteCache(key)
    \/ \E key \in DraftIds : Expire(key)
    \/ Disconnect
    \/ Connect

SpecCache == Init /\ [][NextCache]_vars

(***************************************************************************)
(* SpecQueue: drafts are created and submitted for export, the processor   *)
(* is started and stopped, and its threads run _process_loop.  A step of a *)
(* thread is one test of the loop, one call of the queue manager or the    *)
(* body of _process_task between two of them.                              *)
(***************************************************************************)
\* create_draft(draft_id) for a draft_id without a draft
CreateDraft(draft_id) ==
    /\ cache.data[draft_id] = None
    /\ cache' = stored(cache, draft_id, Script_file)
    /\ UNCHANGED <<draft, upload, sites, exports>>

\* submit_export_task(task_data).  The model stops growing at as many
\* waiting tasks as there are drafts.
SubmitExportTask(task_data) ==
    LET r == submit_export_task(export_queue, cache, task_data)
    IN  /\ Len(r.queue.queue) <= Cardinality(DraftIds)
        /\ export_queue' = r.queue
        /\ last' = [op |-> "submit_export_task", err |-> r.err,
                    changed |-> r.queue # export_queue, after_load |-> FALSE]
        /\ UNCHANGED <<doc, file, IS_CAPCUT_ENV, cache, sites, manager, processor, threads, upload>>

\* start_processor: a new thread runs _process_loop.  The record of a
\* thread that has exited is taken for the new thread.
StartProcessor(thread) ==
    /\ ~processor.is_running
    /\ processor.is_windows
    /\ threads[thread].pc \in {"none", "exited"}
    /\ processor' = [processor EXCEPT !.is_running = TRUE, !.processor_thread = Some(thread)]
    /\ threads' = [threads EXCEPT ![thread] = [pc |-> "loop", task |-> None]]
    /\ UNCHANGED <<draft, upload, cache, sites, export_queue, manager>>

\* stop_processor: join returns when the thread has exited or after 5
\* seconds, with the thread where it is
StopProcessor ==
    /\ processor.is_running
    /\ processor' = [processor EXCEPT !.is_running = FALSE]
    /\ UNCHANGED <<draft, upload, cache, sites, export_queue, manager, threads>>

\* _process_loop, line 293: while self.is_running
LoopTest(thread) ==
    /\ threads[thread].pc = "loop"
    /\ threads' = [threads EXCEPT ![thread].pc =
                      IF processor.is_running THEN "check" ELSE "exited"]
    /\ UNCHANGED <<draft, upload, cache, sites, export_queue, manager, processor>>

\* _process_loop, lines 296-298: is_local_task_running, then sleep or go on
CheckLocal(thread) ==
    /\ threads[thread].pc = "check"
    /\ threads' = [threads EXCEPT ![thread].pc =
                      IF manager.is_processing_local THEN "loop" ELSE "get"]
    /\ UNCHANGED <<draft, upload, cache, sites, export_queue, manager, processor>>

\* _process_loop, lines 301-303: get_next_task
GetNextTask(thread) ==
    /\ threads[thread].pc = "get"
    /\ LET r == get_next_task(export_queue, cache.connected)
       IN  /\ export_queue' = r.queue
           /\ threads' = [threads EXCEPT ![thread] =
                            IF r.task = None THEN [pc |-> "loop", task |-> None]
                            ELSE [pc |-> "enter", task |-> r.task]]
    /\ UNCHANGED <<draft, upload, cache, sites, manager, processor>>

\* _process_task, line 323: set_local_task_running(draft_id, True)
EnterTask(thread) ==
    /\ threads[thread].pc = "enter"
    /\ manager' = set_local_task_running(manager, threads[thread].task[1].draft_id, TRUE)
    /\ threads' = [threads EXCEPT ![thread].pc = "work"]
    /\ UNCHANGED <<draft, upload, cache, sites, export_queue, processor>>

\* _process_task, lines 325-381, for an outcome of save_draft_impl and of
\* _execute_export_draft
WorkTask(thread, saved, exported) ==
    /\ threads[thread].pc = "work"
    /\ export_queue' = _process_task(export_queue, cache.connected, threads[thread].task[1],
                                     saved, exported).queue
    /\ threads' = [threads EXCEPT ![thread].pc = "finally"]
    /\ UNCHANGED <<draft, upload, cache, sites, manager, processor>>

\* _process_task, line 384: set_local_task_running(draft_id, False); the
\* loop goes on, after an exception too (lines 308-310)
FinallyTask(thread) ==
    /\ threads[thread].pc = "finally"
    /\ manager' = set_local_task_running(manager, threads[thread].task[1].draft_id, FALSE)
    /\ threads' = [threads EXCEPT ![thread] = [pc |-> "loop", task |-> None]]
    /\ UNCHANGED <<draft, upload, cache, sites, export_queue, processor>>

NextQueue ==
    \/ \E draft_id \in DraftIds : CreateDraft(draft_id)
    \/ \E draft_id \in {None} \cup {Some(id) : id \in DraftIds} :
            SubmitExportTask(task_data_of(draft_id))
    \/ \E thread \in Threads : StartProcessor(thread)
    \/ StopProcessor
    \/ \E thread \in Threads : LoopTest(thread)
    \/ \E thread \in Threads : CheckLocal(thread)
    \/ \E thread \in Threads : GetNextTask(thread)
    \/ \E thread \in Threads : EnterTask(thread)
    \/ \E thread \in Threads, saved \in BOOLEAN, exported \in BOOLEAN :
            WorkTask(thread, saved, exported)
    \/ \E thread \in Threads : FinallyTask(thread)

SpecQueue == Init /\ [][NextQueue]_vars

(***************************************************************************)
(* SpecUpload: calls of _upload_with_fallback, one after the other, with   *)
(* and without callbacks.  A step of the call is one thing it asks of its  *)
(* surroundings: the write of the temporary file, the upload by a          *)
(* provider, a callback, the removal of the file.                          *)
(***************************************************************************)
\* _upload_with_fallback(data, file_extension, on_success, on_failure)
UploadWithFallback(on_success, on_failure) ==
    /\ upload.pc \in {"idle", "returned"}
    /\ upload' = [UploadIdle EXCEPT !.pc = "write", !.on_success = on_success,
                                    !.on_failure = on_failure]
    /\ UNCHANGED <<draft, cache, sites, exports>>

\* Lines 100-107: the temporary file is written; or open raises and there
\* is no file, or write raises and there is one
WriteOutcomes == {"written", "open raises", "write raises"}

WriteTempFile(outcome) ==
    /\ upload.pc = "write"
    /\ upload' = [upload EXCEPT !.pc = IF outcome = "written" THEN "qiniu" ELSE "except",
                                !.temp_file = outcome # "open raises"]
    /\ UNCHANGED <<draft, cache, sites, exports>>

\* Lines 110-120: the upload by the first provider, and what it reports
QiniuUpload(success) ==
    /\ upload.pc = "qiniu"
    /\ upload' = [upload_file(upload, "qiniu", QiniuUrl, success) EXCEPT
                    !.pc = IF success THEN "on_success" ELSE "aliyun"]
    /\ UNCHANGED <<draft, cache, sites, exports>>

\* Lines 123-134: the upload by the second provider, and what it reports
AliyunUpload(success) ==
    /\ upload.pc = "aliyun"
    /\ upload' = [upload_file(upload, "aliyun", AliyunUrl, success) EXCEPT
                    !.pc = IF success THEN "on_success" ELSE "on_failure"]
    /\ UNCHANGED <<draft, cache, sites, exports>>

\* Lines 115-117 and 128-130: on_success(result) if it was given, which
\* returns or raises, and return result
OnSuccess(raises) ==
    /\ upload.pc = "on_success"
    /\ raises => upload.on_success
    /\ upload' = LET u == invoked(upload, "on_success", upload.on_success)
                 IN  IF raises THEN [u EXCEPT !.pc = "except"]
                     ELSE returns(u, upload.url[1])
    /\ UNCHANGED <<draft, cache, sites, exports>>

\* Lines 135-137: on_failure(error_msg) if it was given, and return ""
OnFailure(raises) ==
    /\ upload.pc = "on_failure"
    /\ raises => upload.on_failure
    /\ upload' = LET u == invoked(upload, "on_failure", upload.on_failure)
                 IN  IF raises THEN [u EXCEPT !.pc = "except"]
                     ELSE returns(u, "")
    /\ UNCHANGED <<draft, cache, sites, exports>>

\* Lines 139-145, the handler of an exception: on_failure(error_msg) if it
\* was given, and return ""; an exception of on_failure leaves the call
HandleException(raises) ==
    /\ upload.pc = "except"
    /\ raises => upload.on_failure
    /\ upload' = LET u == invoked(upload, "on_failure", upload.on_failure)
                 IN  IF raises THEN leaves(u, "Exception")
                     ELSE returns(u, "")
    /\ UNCHANGED <<draft, cache, sites, exports>>

\* Lines 146-152, the finally clause: os.remove of the file if it exists; an
\* exception of os.remove is logged
RemoveTempFile(removed) ==
    /\ upload.pc = "finally"
    /\ ~removed => upload.temp_file
    /\ upload' = [upload EXCEPT !.pc = "returned", !.temp_file = @ /\ ~removed]
    /\ UNCHANGED <<draft, cache, sites, exports>>

NextUpload ==
    \/ \E on_success \in BOOLEAN, on_failure \in BOOLEAN :
            UploadWithFallback(on_success, on_failure)
    \/ \E outcome \in WriteOutcomes : WriteTempFile(outcome)
    \/ \E success \in BOOLEAN : QiniuUpload(success)
    \/ \E success \in BOOLEAN : AliyunUpload(success)
    \/ \E raises \in BOOLEAN : OnSuccess(raises)
    \/ \E raises \in BOOLEAN : OnFailure(raises)
    \/ \E raises \in BOOLEAN : HandleException(raises)
    \/ \E removed \in BOOLEAN : RemoveTempFile(removed)

SpecUpload == Init /\ [][NextUpload]_vars

(***************************************************************************)
(* Properties of the placement of segments, under Spec.                    *)
(***************************************************************************)
all_tracks(d) == Range(d.tracks) \cup Range(d.imported_tracks)

sorted_and_disjoint(segments) ==
    \A i, j \in DOMAIN segments :
        i < j => /\ segments[i].start <= segments[j].start
                 /\ ~overlaps(segments[i], segments[j])

\* C1: after any sequence of add_segment calls, returned or failed, the
\* segments of every track are in the order of their start times and no two
\* of them overlap.
C1_TrackSortedDisjoint ==
    \A track \in all_tracks(doc) : sorted_and_disjoint(track.segments)

\* A track whose first segment was added after its second, and a call of
\* add_segment that then failed.
C1_Witness ==
    /\ \E track \in all_tracks(doc) :
            /\ Len(track.segments) = 2
            /\ track.segments[1].id[2] > track.segments[2].id[2]
    /\ last.op = "add_segment" /\ last.err = "SegmentOverlap"

overlaps_on(d, ref, seg) ==
    /\ accept_segment_type(track_at(d, ref)) = seg.kind
    /\ \E s \in Range(track_at(d, ref).segments) : overlaps(s, seg)

\* C2: add_segment, add_effect and add_filter, given a segment that overlaps
\* a segment of the track it goes to, raise SegmentOverlap and leave the
\* whole document (tracks, duration, registry) as it was.
C2_OverlapRejected ==
    LET n == next_segment(doc) IN
    /\ \A seg \in PlacedSegments(n), track_name \in PlacedNames :
            LET found == _get_track_and_imported_track(doc, seg.kind, track_name)
            IN  (found.err = "ok" /\ overlaps_on(doc, found.tracks[1], seg))
                => add_segment(doc, seg, track_name) = Raise(doc, "SegmentOverlap")
    /\ \A start \in Times, dur \in Durations, track_name \in PlacedNames :
            LET seg == Effect_segment(n, start, dur)
                target == get_track(doc, "Effect_segment", track_name)
            IN  (target.err = "ok" /\ overlaps_on(doc, target.track, seg))
                => add_effect(doc, seg, track_name) = Raise(doc, "SegmentOverlap")
    /\ \A start \in Times, dur \in Durations, track_name \in PlacedNames :
            LET seg == Filter_segment(n, start, dur)
                target == get_track(doc, "Filter_segment", track_name)
            IN  (target.err = "ok" /\ overlaps_on(doc, target.track, seg))
                => add_filter(doc, seg, track_name) = Raise(doc, "SegmentOverlap")

\* add_effect has just raised SegmentOverlap on a document with a duration
\* and registered materials.
C2_Witness ==
    /\ last.op = "add_effect" /\ last.err = "SegmentOverlap" /\ ~last.changed
    /\ doc.duration > 0
    /\ doc.materials.video_effects # <<>>

\* C3: the duration of a document created empty is the latest end of the
\* segments of its tracks, 0 when it has no segment.
C3_DurationIsMaxEnd ==
    doc.duration = SetMax({0} \cup {seg_end(s) : s \in all_segments(doc)})

\* Two tracks with a segment each, the segment added last ending before the
\* duration.
C3_Witness ==
    /\ \E i, j \in DOMAIN doc.tracks :
            i # j /\ doc.tracks[i].segments # <<>> /\ doc.tracks[j].segments # <<>>
    /\ \E s \in all_segments(doc) :
            s.id[2] + 1 = next_segment(doc) /\ seg_end(s) < doc.duration
    /\ last.op \in {"add_effect", "add_filter"} /\ last.changed

(***************************************************************************)
(* Properties of the material registry.                                    *)
(***************************************************************************)
\* The number of entries of the exported materials section with the id
occurrences(materials, id) ==
    LET RECURSIVE count(_)
        count(keys) ==
            IF keys = {} THEN 0
            ELSE LET key == CHOOSE k \in keys : TRUE
                 IN  Cardinality({i \in DOMAIN materials[key] : materials[key][i].id = id})
                     + count(keys \ {key})
    IN  count(DOMAIN materials)

exported_ids(materials) ==
    UNION {{materials[key][i].id : i \in DOMAIN materials[key]} : key \in DOMAIN materials}

referenced_ids(d) ==
    UNION {{s.material_id} \cup Range(s.extra_material_refs) : s \in all_segments(d)}

C5_AddMaterialIdempotent ==
    \A material \in Materials :
        contains(doc.materials, material)
        => /\ add_material(doc, material) = Ok(doc)
           /\ LET list == doc.materials[contains_list(material.cls)[1]]
              IN  Cardinality({i \in DOMAIN list : list[i].id = material.id}) = 1

\* add_material has just returned without a change, on a document whose
\* segments had registered their materials.
C5_Witness ==
    /\ last.op = "add_material" /\ last.err = "ok" /\ ~last.changed
    /\ Len(doc.materials.videos) = 2
    /\ doc.materials.speeds # <<>>

C7_DumpsReadOnly ==
    LET once == dumps(doc, IS_CAPCUT_ENV)
        twice == dumps(once, IS_CAPCUT_ENV)
    IN  /\ once.materials = doc.materials
        /\ once.imported_materials = doc.imported_materials
        /\ once.tracks = doc.tracks
        /\ once.imported_tracks = doc.imported_tracks
        /\ twice.content = once.content

\* C8: the exported tracks are the authored tracks followed by the imported
\* tracks, each once, in the order of render_index, and the tracks of one
\* render_index in the order they had before.
C8_TracksSortedStable ==
    LET track_list == doc.tracks \o doc.imported_tracks
        source == [i \in DOMAIN track_list |-> track_json(track_list[i])]
        exported == dumps(doc, IS_CAPCUT_ENV).content.tracks
        of(tracks, index) == SelectSeq(tracks, LAMBDA t : t.render_index = index)
    IN  /\ \A i, j \in DOMAIN exported :
                i < j => exported[i].render_index <= exported[j].render_index
        /\ \A index \in {t.render_index : t \in Range(source) \cup Range(exported)} :
                of(exported, index) = of(source, index)

\* An export of two authored tracks that are not in the order of their
\* render_index, and an imported track of the render_index of the second.
C8_Witness ==
    /\ last.op = "dumps"
    /\ Len(doc.tracks) = 2
    /\ doc.tracks[1].render_index > doc.tracks[2].render_index
    /\ \E i \in DOMAIN doc.imported_tracks :
            doc.imported_tracks[i].render_index = doc.tracks[2].render_index
    /\ Len(doc.content.tracks) = 2 + Len(doc.imported_tracks)

C10_AddTrackDefaultName ==
    \A track_type \in TrackTypes, mute \in BOOLEAN,
       relative_index \in RelativeIndexes, absolute_index \in AbsoluteIndexes :
        LET r == add_track(doc, track_type, None, mute, relative_index, absolute_index)
        IN  IF track_type \in {doc.tracks[i].track_type : i \in DOMAIN doc.tracks}
            THEN r.err # "ok" /\ r.doc.tracks = doc.tracks
            ELSE /\ r.err = "ok"
                 /\ \E i \in DOMAIN r.doc.tracks :
                        /\ r.doc.tracks[i].track_type = track_type
                        /\ r.doc.tracks[i].name = track_type

(***************************************************************************)
(* Properties of get_track, under Spec.                                    *)
(***************************************************************************)
\* C11: get_track with the name omitted returns the one authored track that
\* accepts the segment type, raises TrackNotFound when there is none and an
\* ambiguity error when there are several; add_effect and add_filter with
\* the name omitted return when there is one effect / filter track and the
\* segment overlaps nothing.
C11_GetTrackByType ==
    /\ \A track_type \in Track_type :
            LET segment_type == meta_segment_type(track_type)
                accepting == SelectRefs(doc, "tracks",
                                        LAMBDA t : accept_segment_type(t) = segment_type)
                found == get_track(doc, segment_type, None)
            IN  CASE Len(accepting) = 1 -> found = [track |-> accepting[1], err |-> "ok"]
                  [] Len(accepting) = 0 -> found.err = "TrackNotFound"
                  [] OTHER -> found.err \notin {"ok", "TrackNotFound"}
    /\ \A start \in Times, dur \in Durations :
            LET effect == Effect_segment(next_segment(doc), start, dur)
                filter == Filter_segment(next_segment(doc), start, dur)
                free(seg) ==
                    \E i \in DOMAIN doc.tracks :
                        /\ accept_segment_type(doc.tracks[i]) = seg.kind
                        /\ \A j \in DOMAIN doc.tracks :
                                accept_segment_type(doc.tracks[j]) = seg.kind => j = i
                        /\ ~overlaps_on(doc, <<"tracks", i>>, seg)
            IN  /\ free(effect) => add_effect(doc, effect, None).err = "ok"
                /\ free(filter) => add_filter(doc, filter, None).err = "ok"

(***************************************************************************)
(* Properties of imported tracks, under SpecImport.                        *)
(***************************************************************************)
\* C12: no two tracks of the document, authored or imported, have the same
\* name.
C12_TrackNamesUnique ==
    LET track_list == doc.tracks \o doc.imported_tracks
    IN  \A i, j \in DOMAIN track_list :
            track_list[i].name = track_list[j].name => i = j

\* C13: the copy import_track appends has, for every segment of the track,
\* a segment of the same duration that starts at the original start plus the
\* offset, or at 0 when that is negative; the source document and its track
\* are as they were.
C13_OffsetClamped ==
    \A source_file \in SourceDocuments, offset \in Offsets,
       new_name \in NewNames, relative_index \in NewIndexes :
      \A place \in DOMAIN source_file.imported_tracks :
        LET track == source_file.imported_tracks[place]
            r == Script_file_import_track(doc, source_file, track, offset, new_name,
                                          relative_index)
            copy == r.doc.imported_tracks[Len(r.doc.imported_tracks)]
        IN  /\ Len(r.doc.imported_tracks) = Len(doc.imported_tracks) + 1
            /\ DOMAIN copy.segments = DOMAIN track.segments
            /\ \A i \in DOMAIN track.segments :
                    /\ copy.segments[i].start >= 0
                    /\ copy.segments[i].start =
                            (IF track.segments[i].start + offset < 0 THEN 0
                             ELSE track.segments[i].start + offset)
                    /\ copy.segments[i].dur = track.segments[i].dur
            /\ r.source_file = source_file

\* import_track has returned and left a track whose two segments, one from
\* start 0 and one from a later start, both start at 0.
C13_Witness ==
    /\ last.op = "import_track" /\ last.err = "ok"
    /\ LET copy == doc.imported_tracks[Len(doc.imported_tracks)]
       IN  /\ Len(copy.segments) = 2
           /\ copy.segments[1].start = 0 /\ copy.segments[2].start = 0

C15_MissingMaterialRejected ==
    \A source_file \in SourceDocuments, offset \in Offsets,
       new_name \in NewNames, relative_index \in NewIndexes :
      \A place \in DOMAIN source_file.imported_tracks :
        LET track == source_file.imported_tracks[place]
            source_ids ==
                UNION {{source_file.imported_materials[key][k].id :
                            k \in DOMAIN source_file.imported_materials[key]} :
                        key \in DOMAIN source_file.imported_materials}
            referenced ==
                UNION {{track.segments[i].material_id}
                       \cup Range(track.segments[i].extra_material_refs) :
                        i \in DOMAIN track.segments}
            r == Script_file_import_track(doc, source_file, track, offset, new_name,
                                          relative_index)
        IN  ~(referenced \subseteq source_ids) =>
                /\ r.err # "ok"
                /\ r.doc.imported_tracks = doc.imported_tracks
                /\ r.doc.imported_materials = doc.imported_materials
                /\ r.doc.duration = doc.duration

C17_ReplaceByName ==
    \A material_name \in MaterialNames, material \in NewMaterials, replace_crop \in BOOLEAN :
        LET video == material.cls = "Video_material"
            list == IF video THEN "videos" ELSE "audios"
            records == IF list \in DOMAIN doc.imported_materials
                       THEN doc.imported_materials[list] ELSE <<>>
            name_of(mat) == IF video THEN mat.material_name ELSE mat.name
            named == {i \in DOMAIN records : name_of(records[i]) = material_name}
            r == replace_material_by_name(doc, material_name, material, replace_crop)
        IN  CASE named = {} -> r = Raise(doc, "MaterialNotFound")
              [] Cardinality(named) > 1 -> r = Raise(doc, "AmbiguousMaterial")
              [] OTHER ->
                    LET i == CHOOSE i \in named : TRUE
                        after == r.doc.imported_materials[list][i]
                    IN  /\ r.err = "ok"
                        /\ [r.doc EXCEPT !.imported_materials[list][i] = records[i]] = doc
                        /\ after.id = records[i].id
                        /\ name_of(after) = material.material_name
                        /\ after.path = material.path
                        /\ after.duration = material.duration
                        /\ video => /\ after.width = material.width
                                    /\ after.height = material.height
                                    /\ after.material_type = material.material_type
                                    /\ after.crop = (IF replace_crop THEN material.crop_settings
                                                     ELSE records[i].crop)
                        /\ DOMAIN after = DOMAIN records[i]

(***************************************************************************)
(* Properties of replace_material_by_seg, under SpecSegment.               *)
(***************************************************************************)
\* The range of the material replace_material_by_seg works with
effective_range(seg, material, source_timerange) ==
    IF source_timerange # None THEN source_timerange[1]
    ELSE IF material.cls = "Video_material" /\ material.material_type = "photo"
    THEN [start |-> 0, duration |-> seg.dur]
    ELSE [start |-> 0, duration |-> material.duration]

valid_call(d, ref, segment_index, material) ==
    /\ is_ImportedMediaTrack(d, ref)
    /\ 0 <= segment_index /\ segment_index < Len(track_at(d, ref).segments)
    /\ check_material_type(track_at(d, ref), material)

\* C18: replace_material_by_seg with cut_tail and no source range, of a
\* material that is no photo and shorter than the segment: the segment then
\* lasts as long as the material, starts where it started and refers to the
\* material, and the exported materials hold the material exactly once.
C18_ShrinkCutsTail ==
    \A ref \in refs(doc), segment_index \in SegmentIndexes, material \in NewMaterials,
       handle_extend \in ExtendLists :
        (/\ valid_call(doc, ref, segment_index, material)
         /\ material.cls = "Video_material" => material.material_type # "photo"
         /\ material.duration < track_at(doc, ref).segments[segment_index + 1].dur)
        => LET r == replace_material_by_seg(doc, ref, segment_index, material, None,
                                            "cut_tail", handle_extend)
               before == track_at(doc, ref).segments[segment_index + 1]
               after == track_at(r.doc, ref).segments[segment_index + 1]
           IN  /\ r.err = "ok"
               /\ after.dur = material.duration
               /\ after.start = before.start
               /\ after.material_id = material.id
               /\ occurrences(dumps(r.doc, IS_CAPCUT_ENV).content.materials, material.id) = 1

C18_Witness ==
    /\ last.op = "replace_material_by_seg" /\ last.err = "ok" /\ last.changed
    /\ Len(doc.imported_tracks) > 0
    /\ doc.imported_tracks[1].segments[1].material_id = <<"video", 8>>
    /\ doc.imported_tracks[1].segments[1].dur = 1
    /\ doc.imported_tracks[1].segments[2].material_id = <<"video", 8>>

ceil_div(a, b) == (a + b - 1) \div b

\* C20: replace_text with recalc_style, of a plain text of L_old characters
\* whose styles lie within it, by a text of L_new characters: every range
\* [s, e] becomes [ceil(s * L_new / L_old), ceil(e * L_new / L_old)], the
\* styles whose range is then empty are removed, the others stay in their
\* order, and each of them has 0 <= start < end <= L_new.
C20_StylesRescaled ==
    \A ref \in refs(doc), segment_index \in SegmentIndexes, L_new \in TextLengths \cup {0, 1} :
        (/\ is_ImportedTextTrack(doc, ref)
         /\ 0 <= segment_index /\ segment_index < Len(track_at(doc, ref).segments))
        => LET texts == doc.imported_materials.texts
               i == index_of(texts, track_at(doc, ref).segments[segment_index + 1].material_id)
               content == texts[i].content[2]
               L_old == Len(content.text)
               r == replace_text(doc, ref, segment_index, text_str(characters(L_new)), TRUE)
               after == r.doc.imported_materials.texts[i].content[2]
               rescaled == [k \in DOMAIN content.styles |->
                               [content.styles[k] EXCEPT !.range =
                                   <<ceil_div(@[1] * L_new, L_old), ceil_div(@[2] * L_new, L_old)>>]]
           IN  (/\ i # 0 /\ texts[i].content[1] = "json" /\ L_old >= 1
                /\ \A style \in Range(content.styles) :
                        0 <= style.range[1] /\ style.range[1] <= style.range[2]
                        /\ style.range[2] <= L_old)
               => /\ r.err = "ok"
                  /\ after.text = characters(L_new)
                  /\ after.styles = SelectSeq(rescaled, LAMBDA style : style.range[1] # style.range[2])
                  /\ \A style \in Range(after.styles) :
                        0 <= style.range[1] /\ style.range[1] < style.range[2]
                        /\ style.range[2] <= L_new

\* The lists of strings a template is given: none, one, two in either order,
\* three
SlotTexts ==
    {<<>>, <<characters(1)>>, <<characters(1), characters(2)>>,
     <<characters(2), characters(1)>>, <<characters(1), characters(2), characters(3)>>}

\* The characters a text material shows
text_of(mat) == IF mat.content[1] = "json" THEN mat.content[2].text ELSE mat.content[2]

\* C21: replace_text on a segment of a text template of n slots with k
\* strings: with k > n it raises ValueError and the document is as it was;
\* with k <= n the material of slot i then shows string i, for every i <= k,
\* and every other text material is as it was.
C21_TemplateSlots ==
    \A ref \in refs(doc), segment_index \in SegmentIndexes, strings \in SlotTexts,
       recalc_style \in BOOLEAN :
        (/\ is_ImportedTextTrack(doc, ref)
         /\ 0 <= segment_index /\ segment_index < Len(track_at(doc, ref).segments))
        => LET texts == doc.imported_materials.texts
               id == track_at(doc, ref).segments[segment_index + 1].material_id
               t == index_of(doc.imported_materials.text_templates, id)
               resources == doc.imported_materials.text_templates[t].text_info_resources
               slot(i) == index_of(texts, resources[i].text_material_id)
               r == replace_text(doc, ref, segment_index, text_list(strings), recalc_style)
               after == r.doc.imported_materials.texts
           IN  (index_of(texts, id) = 0 /\ t # 0
                /\ \A i \in DOMAIN resources : slot(i) # 0 /\ is_str(texts[slot(i)].content))
               => IF Len(strings) > Len(resources)
                  THEN r = Raise(doc, "ValueError")
                  ELSE /\ r.err = "ok"
                       /\ [r.doc EXCEPT !.imported_materials.texts = texts] = doc
                       /\ DOMAIN after = DOMAIN texts
                       /\ \A i \in DOMAIN strings : text_of(after[slot(i)]) = strings[i]
                       /\ \A m \in DOMAIN texts :
                            m \notin {slot(i) : i \in DOMAIN strings} => after[m] = texts[m]

C21_Witness ==
    /\ last.op = "replace_text" /\ last.err = "ok" /\ last.changed
    /\ \E m, n \in DOMAIN doc.imported_materials.texts :
        /\ doc.imported_materials.texts[m].id = <<"text", 6>>
        /\ text_of(doc.imported_materials.texts[m]) = characters(1)
        /\ doc.imported_materials.texts[n].id = <<"text", 7>>
        /\ doc.imported_materials.texts[n] = text_record(7, 2, <<text_style(0, 2, 1)>>)

(***************************************************************************)
(* Properties of import_srt, under SpecSrt.                                *)
(***************************************************************************)
\* A second line of text, and the cues of well-formed subtitles: each from
\* start to end with its lines of text, in the order of time
OtherLine == [k |-> "text", s |-> 1, e |-> 0]

Cue(start, end, text) == [start |-> start, end |-> end, text |-> text]

CueLists ==
    {<<>>, <<Cue(0, 1, <<TextLine>>)>>,
     <<Cue(0, 1, <<TextLine>>), Cue(1, 2, <<OtherLine>>)>>,
     <<Cue(1, 2, <<OtherLine, TextLine>>), Cue(3, 4, <<TextLine>>)>>}

\* The lines of the subtitles of the cues, the last one followed by a blank
\* line or not
RECURSIVE srt_lines(_, _)
srt_lines(cues, final_blank) ==
    IF cues = <<>> THEN <<>>
    ELSE <<DigitLine, StampLine(Head(cues).start, Head(cues).end)>> \o Head(cues).text
         \o (IF Len(cues) = 1 /\ ~final_blank THEN <<>> ELSE <<BlankLine>>)
         \o srt_lines(Tail(cues), final_blank)

\* The calls of import_srt with these subtitles
CueCalls(cues) ==
    {[lines |-> srt_lines(cues, final_blank), track_name |-> track_name,
      time_offset |-> time_offset, style_reference |-> style_reference,
      clip_settings |-> TRUE, font |-> font, bubble |-> None, effect |-> None] :
        final_blank \in BOOLEAN, track_name \in {"text", "subtitles"},
        time_offset \in Times, style_reference \in BOOLEAN, font \in {None, Some(TRUE)}}

\* The track of the name among the authored tracks, <<>> when there is none
named_track(d, name) == SelectSeq(d.tracks, LAMBDA t : t.name = name)

\* The named track can take the cues: there is no track of the name, or an
\* authored text track none of whose segments meets a cue
takes_cues(d, c, cues) ==
    /\ \A t \in Range(d.imported_tracks) : t.name # c.track_name
    /\ \A t \in Range(named_track(d, c.track_name)) :
        /\ t.track_type = "text"
        /\ \A seg \in Range(t.segments), i \in DOMAIN cues :
            \/ seg_end(seg) <= cues[i].start + c.time_offset
            \/ cues[i].end + c.time_offset <= seg.start

\* C22: import_srt of well-formed subtitles of n cues adds n text segments to
\* the named track, in the order of the cues, the i-th with the text of the
\* i-th cue, from its start + time_offset, as long as the cue; the last cue
\* is added with or without a blank line after it.
C22_CuesImported ==
    \A cues \in CueLists : \A c \in CueCalls(cues) :
        takes_cues(doc, c, cues)
        => LET r == import_srt(doc, c)
               before == named_track(doc, c.track_name)
               old == IF before = <<>> THEN {} ELSE {seg.id : seg \in Range(before[1].segments)}
               after == named_track(r.doc, c.track_name)
               added == SelectSeq(after[1].segments, LAMBDA seg : seg.id \notin old)
           IN  /\ r.err = "ok"
               /\ Len(after) = 1
               /\ Len(after[1].segments) = Cardinality(old) + Len(cues)
               /\ Len(added) = Len(cues)
               /\ \A i \in DOMAIN cues :
                    /\ added[i].kind = "Text_segment"
                    /\ added[i].text = cues[i].text
                    /\ added[i].start = cues[i].start + c.time_offset
                    /\ added[i].dur = cues[i].end - cues[i].start
               /\ segment_count(r.doc) = segment_count(doc) + Len(cues)

\* Subtitles whose line for a number holds none, with the number of that
\* line: the first line, the first line after a blank one, the line after a
\* well-formed cue
MalformedTexts ==
    {<<<<TextLine, StampLine(0, 1), TextLine>>, 1>>,
     <<<<BlankLine, TextLine>>, 2>>,
     <<<<DigitLine, StampLine(0, 1), TextLine, BlankLine,
         OtherLine, StampLine(1, 2), TextLine>>, 5>>}

MalformedCalls(lines) ==
    {[lines |-> lines, track_name |-> track_name, time_offset |-> 0,
      style_reference |-> style_reference, clip_settings |-> TRUE, font |-> Some(TRUE),
      bubble |-> styled[1], effect |-> styled[2]] :
        track_name \in {"text", "subtitles"}, style_reference \in BOOLEAN,
        styled \in {<<None, None>>, <<Some(TheBubble), Some(TheEffect)>>}}

\* C23: import_srt of subtitles whose line for a number holds none raises an
\* error naming that line, counted from 1, and the document is as it was: no
\* track, no segment and no material more.
C23_MalformedIndexRejected ==
    \A malformed \in MalformedTexts : \A c \in MalformedCalls(malformed[1]) :
        LET r == import_srt(doc, c)
        IN  /\ r.err = "ValueError"
            /\ "line" \in DOMAIN r /\ r.line = malformed[2]
            /\ r.doc = doc

\* C28: import_srt without a font, with a style_reference or without, of
\* subtitles the named track can take, adds one text segment for each cue
\* and does not raise.
C28_FontOmitted ==
    \A cues \in CueLists : \A c \in CueCalls(cues) :
        (takes_cues(doc, c, cues) /\ c.font = None)
        => LET r == import_srt(doc, c)
           IN  /\ r.err = "ok"
               /\ segment_count(r.doc) = segment_count(doc) + Len(cues)
               /\ Len(named_track(r.doc, c.track_name)) = 1

(***************************************************************************)
(* Properties of the mode flag, under SpecExport.                          *)
(***************************************************************************)
\* C24: the materials section of a document exported with the flag holds
\* common_mask and no masks, exported without it masks and no common_mask,
\* the list under the one is the list under the other, and every other key
\* is in both sections with the same content.
C24_FlagRenamesMasks ==
    LET unset == dumps(doc, FALSE).content.materials
        set == dumps(doc, TRUE).content.materials
    IN  /\ "masks" \in DOMAIN unset /\ "common_mask" \notin DOMAIN unset
        /\ "common_mask" \in DOMAIN set /\ "masks" \notin DOMAIN set
        /\ unset.masks = set.common_mask
        /\ DOMAIN unset \ {"masks"} = DOMAIN set \ {"common_mask"}
        /\ \A key \in DOMAIN unset \ {"masks"} : unset[key] = set[key]

(***************************************************************************)
(* Properties of the duration after template operations, under SpecImport. *)
(***************************************************************************)
\* The latest end of the segments of the authored and the imported tracks
latest_end(d) == SetMax({0} \cup {seg_end(s) : s \in all_segments(d)})

\* C30: in a document whose duration is the latest end of its segments, a
\* call of import_track that returns, with any offset, and a call of
\* replace_material_by_seg that returns leave a document whose duration is
\* the latest end of the segments of its authored and imported tracks.
C30_DurationAfterTemplateOps ==
    doc.duration = latest_end(doc)
    => /\ \A source_file \in SourceDocuments, c \in ImportCalls :
          \A place \in DOMAIN source_file.imported_tracks :
            LET r == Script_file_import_track(doc, source_file,
                                              source_file.imported_tracks[place],
                                              c.offset, c.new_name, c.relative_index)
            IN  r.err = "ok" => r.doc.duration = latest_end(r.doc)
       /\ \A ref \in refs(doc), segment_index \in SegmentIndexes, material \in NewMaterials,
             handle_extend \in ExtendLists :
            LET r == replace_material_by_seg(doc, ref, segment_index, material, None,
                                             "cut_tail", handle_extend)
            IN  r.err = "ok" => r.doc.duration = latest_end(r.doc)

(***************************************************************************)
(* Properties of the draft cache and of add_effect_impl, under SpecCache.  *)
(***************************************************************************)
\* The script a site at its last step holds after the step, and the cache
edit_of(site) ==
    LET s == sites[site]
    IN  add_effect_impl_edit(s.script[1], s.effect_type, s.start, s.dur, s.track_name,
                             s.params)

\* C27: with the connection up, get_cache of a key returns the value of the
\* last update_cache of the key that succeeded and was not followed by a
\* delete_cache, or nothing; and when a call of add_effect_impl stores its
\* script, get_cache of its draft_id returns that script, whatever the key
\* held before.
C27_LastWriterWins ==
    cache.connected
    => /\ \A key \in DraftIds : get_cache(cache, key) \in {None, cache.latest[key]}
       /\ \A site \in Sites :
            (sites[site].pc = "edit" /\ edit_of(site).err = "ok")
            => get_cache(stored(cache, sites[site].draft_id[1], edit_of(site).doc),
                         sites[site].draft_id[1]) = Some(edit_of(site).doc)

\* Two calls for one draft have returned, each has added its effect to a
\* script without the other's, and the cache holds the script of one of them.
C27_Witness ==
    /\ cache.connected
    /\ \E earlier, later \in Sites :
        /\ earlier # later
        /\ \A site \in {earlier, later} :
            /\ sites[site].pc = "returned" /\ sites[site].err = "ok"
            /\ sites[site].draft_id = Some("d1")
            /\ segment_count(sites[site].script[1]) = 1
        /\ sites[earlier].script # sites[later].script
        /\ get_cache(cache, "d1") = sites[later].script
        /\ cache.latest["d1"] = sites[later].script

\* C29: a call of add_effect_impl without params that has its script does
\* what the call with an empty list of params does: where that one adds the
\* effect and stores the script, so does the call without params.
C29_ParamsOmitted ==
    \A site \in Sites :
        (sites[site].pc = "edit" /\ sites[site].params = None)
        => LET s == sites[site]
               listed == add_effect_impl_edit(s.script[1], s.effect_type, s.start, s.dur,
                                              s.track_name, Some(<<>>))
           IN  listed.err = "ok"
               => /\ edit_of(site).err = "ok"
                  /\ edit_of(site).doc = listed.doc

(***************************************************************************)
(* Properties of the export queue, under SpecQueue.                        *)
(***************************************************************************)
\* Python's task_data.get('retry_count', 0)
retries(task) == IF task.retry_count = None THEN 0 ELSE task.retry_count[1]

\* The tasks waiting, in processing and held by the threads
live_tasks ==
    {json_loads(export_queue.queue[i]) : i \in DOMAIN export_queue.queue}
    \cup {json_loads(export_queue.processing[key][1]) :
            key \in {k \in DraftIds : export_queue.processing[k] # None}}
    \cup {threads[thread].task[1] : thread \in {t \in Threads : threads[t].task # None}}

\* C25: no task has been put back more than 3 times; and when the
\* processing of a task fails, the task leaves the processing set and is
\* put back at the head of the queue with its retry_count one higher, or,
\* when that makes retry_count exceed 3, is not put back and a result with
\* success = false is recorded for its draft_id.
C25_BoundedRetry ==
    /\ \A task \in live_tasks : retries(task) <= 3
    /\ \A thread \in Threads, saved \in BOOLEAN, exported \in BOOLEAN :
        (threads[thread].pc = "work" /\ ~(saved /\ exported) /\ cache.connected)
        => LET task == threads[thread].task[1]
               draft_id == task.draft_id[1]
               after == _process_task(export_queue, cache.connected, task, saved,
                                      exported).queue
               again == [task EXCEPT !.status = "queued",
                                     !.retry_count = Some(retries(task) + 1)]
           IN  /\ after.processing[draft_id] = None
               /\ IF retries(task) + 1 > 3
                  THEN /\ after.queue = export_queue.queue
                       /\ after.results[draft_id] # None
                       /\ after.results[draft_id][1].success = FALSE
                  ELSE /\ after.queue = <<json_dumps(again)>> \o export_queue.queue
                       /\ after.results = export_queue.results

\* A thread is inside _process_task
inside(thread) == threads[thread].pc \in {"enter", "work", "finally"}

\* C26: no two threads are inside _process_task at once, and while
\* is_processing_local is true a thread is inside _process_task with the
\* task that current_local_task names.
C26_OneLocalTask ==
    /\ \A one, other \in Threads : (inside(one) /\ inside(other)) => one = other
    /\ manager.is_processing_local
       => \E thread \in Threads :
            /\ inside(thread)
            /\ manager.current_local_task = threads[thread].task[1].draft_id

(***************************************************************************)
(* Further properties of import_track, under SpecImport.                   *)
(***************************************************************************)
\* The ids a track refers to are all held by the materials of the document
materials_held(source_file, track) ==
    material_ids(track)
    \subseteq UNION {{source_file.imported_materials[key][k].id :
                        k \in DOMAIN source_file.imported_materials[key]} :
                     key \in DOMAIN source_file.imported_materials}

\* C31: the copy that import_track appends of a track whose segments are in
\* the order of their starts and do not overlap has its segments in the
\* order of their starts and not overlapping, for every offset.
C31_ImportedTrackSortedDisjoint ==
    \A source_file \in SourceDocuments, c \in ImportCalls :
      \A place \in DOMAIN source_file.imported_tracks :
        LET track == source_file.imported_tracks[place]
            r == Script_file_import_track(doc, source_file, track, c.offset, c.new_name,
                                          c.relative_index)
        IN  (sorted_and_disjoint(track.segments) /\ r.err = "ok")
            => sorted_and_disjoint(r.doc.imported_tracks[Len(r.doc.imported_tracks)].segments)

\* C32: import_track into a document that was created empty and never
\* loaded, of a track whose materials the source document holds, returns;
\* the document has the track as its last imported track and holds, under
\* the category of the source, every material the track refers to.
C32_ImportIntoCreatedDocument ==
    DOMAIN doc.imported_materials = {}
    => \A source_file \in SourceDocuments, c \in ImportCalls :
         \A place \in DOMAIN source_file.imported_tracks :
            LET track == source_file.imported_tracks[place]
                r == Script_file_import_track(doc, source_file, track, c.offset,
                                              c.new_name, c.relative_index)
            IN  materials_held(source_file, track)
                => /\ r.err = "ok"
                   /\ Len(r.doc.imported_tracks) = Len(doc.imported_tracks) + 1
                   /\ \A id \in material_ids(track) :
                        \E key \in DOMAIN source_file.imported_materials :
                            /\ \E k \in DOMAIN source_file.imported_materials[key] :
                                    source_file.imported_materials[key][k].id = id
                            /\ key \in DOMAIN r.doc.imported_materials
                            /\ \E k \in DOMAIN r.doc.imported_materials[key] :
                                    r.doc.imported_materials[key][k].id = id

\* C33: no id is the id of two entries of the imported_materials of the
\* document, nor of two entries of the materials section of its export.
C33_ImportedMaterialsOnce ==
    LET materials == dumps(doc, IS_CAPCUT_ENV).content.materials
    IN  /\ \A id \in exported_ids(doc.imported_materials) :
                occurrences(doc.imported_materials, id) = 1
        /\ \A id \in exported_ids(materials) : occurrences(materials, id) = 1


(***************************************************************************)
(* Further properties of replace_text, under SpecText.                     *)
(***************************************************************************)
\* The styles of a text material whose content is structured
styles_of(mat) == mat.content[2].styles

\* C34: replace_text on a segment of a text template leaves the material of
\* every slot it writes with structured content: its text is the string of
\* the slot and its styles are those it had, rescaled when recalc_style is
\* set and the same when it is not; and replace_text without recalc_style
\* on the segment of a plain text leaves the styles of its material as they
\* were.
C34_SlotsKeepStructure ==
    \A ref \in refs(doc), segment_index \in SegmentIndexes :
        (/\ is_ImportedTextTrack(doc, ref)
         /\ 0 <= segment_index /\ segment_index < Len(track_at(doc, ref).segments))
        => LET texts == doc.imported_materials.texts
               id == track_at(doc, ref).segments[segment_index + 1].material_id
               p == index_of(texts, id)
               t == index_of(doc.imported_materials.text_templates, id)
               resources == doc.imported_materials.text_templates[t].text_info_resources
               slot(i) == index_of(texts, resources[i].text_material_id)
           IN  /\ (p = 0 /\ t # 0
                   /\ \A i \in DOMAIN resources :
                        slot(i) # 0 /\ texts[slot(i)].content[1] = "json"
                        /\ Len(texts[slot(i)].content[2].text) >= 1)
                  => \A strings \in SlotTexts, recalc_style \in BOOLEAN :
                        LET r == replace_text(doc, ref, segment_index, text_list(strings),
                                              recalc_style)
                            after == r.doc.imported_materials.texts
                        IN  r.err = "ok"
                            => \A i \in DOMAIN strings :
                                LET old == texts[slot(i)].content[2]
                                IN  /\ after[slot(i)].content[1] = "json"
                                    /\ after[slot(i)].content[2].text = strings[i]
                                    /\ styles_of(after[slot(i)])
                                       = IF recalc_style
                                         THEN recalc_style_range(Len(old.text),
                                                                 Len(strings[i]), old.styles)
                                         ELSE old.styles
               /\ (p # 0 /\ texts[p].content[1] = "json")
                  => \A n \in TextLengths :
                        LET r == replace_text(doc, ref, segment_index,
                                              text_str(characters(n)), FALSE)
                        IN  /\ r.err = "ok"
                            /\ styles_of(r.doc.imported_materials.texts[p]) = styles_of(texts[p])

\* The part of C34 about plain texts
plain_styles_kept ==
    \A ref \in refs(doc), segment_index \in SegmentIndexes :
        (/\ is_ImportedTextTrack(doc, ref)
         /\ 0 <= segment_index /\ segment_index < Len(track_at(doc, ref).segments))
        => LET texts == doc.imported_materials.texts
               p == index_of(texts, track_at(doc, ref).segments[segment_index + 1].material_id)
           IN  (p # 0 /\ texts[p].content[1] = "json")
               => \A n \in TextLengths :
                    LET r == replace_text(doc, ref, segment_index,
                                          text_str(characters(n)), FALSE)
                    IN  /\ r.err = "ok"
                        /\ styles_of(r.doc.imported_materials.texts[p]) = styles_of(texts[p])


(***************************************************************************)
(* Further properties of the export queue, under SpecQueue.                *)
(***************************************************************************)
\* The tasks submitted: for no draft_id, for each draft_id
SubmittedTasks == {task_data_of(draft_id) : draft_id \in {None} \cup {Some(id) : id \in DraftIds}}

\* C36: submit_export_task returns exactly when the task is then at the
\* head of the queue and the progress of its draft is "queued"; when it
\* raises, the queue is as it was.
C36_SubmitAllOrNothing ==
    \A task_data \in SubmittedTasks :
        LET r == submit_export_task(export_queue, cache, task_data)
            task == [task_data EXCEPT !.status = "queued"]
        IN  IF r.err = "ok"
            THEN /\ r.queue.queue = <<json_dumps(task)>> \o export_queue.queue
                 /\ r.queue.progress[task_data.draft_id[1]] = Some("queued")
            ELSE r.queue.queue = export_queue.queue

\* The part of C36 about the checks made before the push
submit_refused_before_push ==
    \A task_data \in SubmittedTasks :
        (\/ task_data.draft_id = None
         \/ get_cache(cache, task_data.draft_id[1]) = None)
        => submit_export_task(export_queue, cache, task_data)
           = [queue |-> export_queue, err |-> "Exception"]


\* The places of the queue that hold a task of the draft
waiting(q, draft_id) ==
    {i \in DOMAIN q.queue : json_loads(q.queue[i]).draft_id = Some(draft_id)}

\* C37: of every draft_id at most one task waits in the queue, and none
\* waits while a task of the draft_id is in the processing set.
C37_OneLiveTask ==
    \A draft_id \in DraftIds :
        /\ Cardinality(waiting(export_queue, draft_id)) <= 1
        /\ export_queue.processing[draft_id] # None => waiting(export_queue, draft_id) = {}

\* The second part of C37 alone
none_waits_while_processing ==
    \A draft_id \in DraftIds :
        export_queue.processing[draft_id] # None => waiting(export_queue, draft_id) = {}


\* A step of a thread of the processor.  The threads are daemon threads of
\* the interpreter: one that can go on does go on.
ThreadStep(thread) ==
    \/ LoopTest(thread)
    \/ CheckLocal(thread)
    \/ GetNextTask(thread)
    \/ EnterTask(thread)
    \/ \E saved \in BOOLEAN, exported \in BOOLEAN : WorkTask(thread, saved, exported)
    \/ FinallyTask(thread)

SpecQueueFair == SpecQueue /\ \A thread \in Threads : WF_vars(ThreadStep(thread))

\* C35: a task that get_next_task has put into the processing set leaves
\* it, and is then waiting in the queue again or has a result recorded for
\* its draft_id, whatever save_draft_impl and _execute_export_draft return.
C35_NoTaskLost ==
    \A draft_id \in DraftIds :
        (export_queue.processing[draft_id] # None)
        ~> (/\ export_queue.processing[draft_id] = None
            /\ \/ waiting(export_queue, draft_id) # {}
               \/ export_queue.results[draft_id] # None)

\* Nothing is ever removed from the processing set, and no result is ever
\* recorded
processing_kept ==
    [][/\ \A draft_id \in DraftIds :
            export_queue.processing[draft_id] # None
            => export_queue'.processing[draft_id] # None
       /\ export_queue'.results = export_queue.results]_vars


(***************************************************************************)
(* Further properties of the draft cache, under SpecCache.                 *)
(***************************************************************************)
\* The cache as a command finds it: the server answers the command or not
answering(c, up) == [c EXCEPT !.connected = up]

\* get_or_create_draft(draft_id) as one call, for the answers of the server
\* to its commands: checks[1] to draft_id in DRAFT_CACHE; then checks[2],
\* checks[3] and checks[4] to DRAFT_CACHE[draft_id], update_cache and
\* DRAFT_CACHE[draft_id] of lines 39-40, or checks[2] to the update_cache of
\* create_draft
get_or_create_draft(c, draft_id, checks) ==
    IF draft_id = None THEN [cache |-> c, script |-> None, err |-> "ValueError"]
    ELSE LET key == draft_id[1]
             read == get_cache(answering(c, checks[2]), key)
             updated == answering(update_cache(answering(c, checks[3]), key, read[1]).cache,
                                  c.connected)
             again == get_cache(answering(updated, checks[4]), key)
             created == answering(update_cache(answering(c, checks[2]), key,
                                               Script_file).cache, c.connected)
         IN  IF get_cache(answering(c, checks[1]), key) # None
             THEN IF read = None THEN [cache |-> c, script |-> None, err |-> "KeyError"]
                  ELSE IF again = None
                  THEN [cache |-> updated, script |-> None, err |-> "KeyError"]
                  ELSE [cache |-> updated, script |-> again, err |-> "ok"]
             ELSE [cache |-> created, script |-> Some(Script_file), err |-> "ok"]

\* The answers of the server to the commands of one call
ConnectionChecks == [1..4 -> BOOLEAN]

\* C38: get_or_create_draft of a draft_id that has a draft stored returns
\* that draft or raises, whatever the server answers to its commands, and
\* the cache holds the draft afterwards; of a draft_id without a draft it
\* stores nothing but a new script; without a draft_id it raises ValueError
\* and stores nothing.
C38_StoredDraftKept ==
    /\ get_or_create_draft(cache, None, [i \in 1..4 |-> TRUE])
       = [cache |-> cache, script |-> None, err |-> "ValueError"]
    /\ \A key \in DraftIds, checks \in ConnectionChecks :
        LET r == get_or_create_draft(cache, Some(key), checks)
        IN  IF cache.data[key] # None
            THEN /\ r.err = "ok" => r.script = Some(pickle_loads(cache.data[key][1]))
                 /\ r.cache.data[key] = cache.data[key]
            ELSE r.cache.data[key] \in {None, Some(pickle_dumps(Script_file))}

\* C38 when the server answers every command of the call
stored_draft_kept_connected ==
    \A key \in DraftIds :
        LET r == get_or_create_draft(cache, Some(key), [i \in 1..4 |-> TRUE])
        IN  cache.data[key] # None
            => /\ r.err = "ok" /\ r.script = Some(pickle_loads(cache.data[key][1]))
               /\ r.cache.data = cache.data


(***************************************************************************)
(* Properties of _upload_with_fallback, under SpecUpload.                  *)
(***************************************************************************)
\* The first provider called is qiniu, and aliyun is called only second and
\* only after qiniu has reported failure
providers_in_order(u) ==
    \A i \in DOMAIN u.providers :
        IF i = 1 THEN u.providers[i][1] = "qiniu"
        ELSE i = 2 /\ u.providers[1] = <<"qiniu", FALSE>> /\ u.providers[i][1] = "aliyun"

\* C39: when a call of _upload_with_fallback is over, the second provider
\* was called only after the first had reported failure; a call that was
\* given both callbacks has returned and has called one callback once:
\* on_success if it returned a URL, on_failure if it returned ""; and the
\* temporary file does not exist.
C39_UploadWithFallback ==
    upload.pc = "returned"
    => /\ providers_in_order(upload)
       /\ (upload.on_success /\ upload.on_failure)
          => /\ upload.err = "ok" /\ upload.result # None
             /\ upload.callbacks = IF upload.result[1] # "" THEN <<"on_success">>
                                   ELSE <<"on_failure">>
       /\ ~upload.temp_file

\* The first part of C39, at every step of the call
providers_always_in_order == providers_in_order(upload)

====
